---- MODULE Spec2Model ----
(***************************************************************************)
(* A model of django_cassandra_fake's in-memory store: the keyspace        *)
(* registry, the Table row store (find / insert / update / delete) and the *)
(* statement executors ModelQuerySet._execute and DMLQuery._execute.       *)
(***************************************************************************)
EXTENDS Integers, Sequences, FiniteSets, TLC

VARIABLES
    _keyspaces,   \* connection.py:76   keyspace name -> (table name -> Table)
    _entries,     \* connection.py:308  module-level defaultdict(list)
    last,         \* the last call made: what was called, and how it ended
    latest,       \* history: per table, the rows last inserted and not deleted since
    threads,      \* the threads inside a call of a Table method: thread -> its position and locals
    serial        \* history: per table, the table the calls leave when run in lock order

vars == <<_keyspaces, _entries, last, latest, threads, serial>>

(***************************************************************************)
(* Bounds of the model.                                                    *)
(***************************************************************************)
MaxVal == 2       \* the values of a primary-key column are 1..MaxVal
MaxPayload == 1   \* the values of another column, and of its elements, are 1..MaxPayload
MaxSize == 1      \* the containers of a table hold at most MaxSize elements together
MaxRows == 2      \* a table is not grown beyond MaxRows rows

(***************************************************************************)
(* Python values.  Every value is a record of one shape, so that values of *)
(* different Python types compare (unequal) as they do in Python.          *)
(* kind "ref" is a reference to a mutable container object on the table's  *)
(* heap: two cells holding the same reference hold the same object.        *)
(***************************************************************************)
EmptyMap == [k \in {} |-> 0]
PyNone == [kind |-> "None", i |-> 0, l |-> <<>>, s |-> {}, m |-> EmptyMap]
PyInt(n) == [kind |-> "int", i |-> n, l |-> <<>>, s |-> {}, m |-> EmptyMap]
PyList(l) == [kind |-> "list", i |-> 0, l |-> l, s |-> {}, m |-> EmptyMap]
PySet(s) == [kind |-> "set", i |-> 0, l |-> <<>>, s |-> s, m |-> EmptyMap]
PyDict(m) == [kind |-> "dict", i |-> 0, l |-> <<>>, s |-> {}, m |-> m]
PyRef(n) == [kind |-> "ref", i |-> n, l |-> <<>>, s |-> {}, m |-> EmptyMap]

IsMutable(v) == v.kind \in {"list", "set", "dict"}

\* the element of a set of one element; The({e(x) : x \in {d}}) is e with x
\* standing for the value of d
The(S) == CHOOSE x \in S : TRUE

KeyValues == {PyInt(n) : n \in 1..MaxVal}
PayloadValues == {PyInt(n) : n \in 1..MaxPayload}

(***************************************************************************)
(* Models (tests/acceptance/app/models.py).  Each model here is the      *)
(* acceptance test's User model restricted to some of its columns.         *)
(***************************************************************************)
Col(name, db, type, pk, required) ==
    [name |-> name, db_field_name |-> db, type |-> type, primary_key |-> pk,
     required |-> required]

username == Col("username", "username", "Text", TRUE, FALSE)
company == Col("company", "company", "Integer", TRUE, FALSE)
height == Col("height", "user_height", "Double", FALSE, FALSE)
skills == Col("skills", "skills", "List", FALSE, FALSE)
skill_matrix == Col("skill_matrix", "skill_matrix", "Map", FALSE, FALSE)
assignments == Col("assignments", "assignments", "Set", FALSE, TRUE)
created_at == Col("created_at", "created_at", "DateTime", FALSE, FALSE)

Models ==
    [ user_key         |-> <<username, company>>,
      user_height      |-> <<username, height>>,
      user_skills      |-> <<username, skills>>,
      user_assignments |-> <<username, assignments>>,
      user_matrix      |-> <<username, skill_matrix>>,
      user_created     |-> <<username, created_at>>,
      user_log         |-> <<height>> ]

ModelNames == DOMAIN Models

\* Model._get_keyspace(): every model here declares __keyspace__ = 'fake'
ModelKeyspace(model) == "fake"

\* Model._db_map: db field name -> column name, for the columns that rename
ModelDbMap(model) ==
    LET cols == Models[model]
        renamed == {i \in DOMAIN cols : cols[i].db_field_name # cols[i].name}
    IN  [d \in {cols[i].db_field_name : i \in renamed} |->
            cols[CHOOSE i \in renamed : cols[i].db_field_name = d].name]

\* Model.column_family_name(False): the table is named after the model
ColumnFamilyName(model) == model

(***************************************************************************)
(* class Table (connection.py:79-275).  A table is a record of the fields  *)
(* Table.__init__ sets, with the row list _entries, each row a function    *)
(* from db field name to a cell, and heap, the mutable container objects   *)
(* the cells refer to.                                                     *)
(***************************************************************************)
\* Table.__init__ (connection.py:80-96), for the table of a model
NewTable(model) ==
    [_name |-> ColumnFamilyName(model),
     _columns |-> Models[model],
     _column_names |-> {Models[model][i].db_field_name : i \in DOMAIN Models[model]},
     _db_map |-> ModelDbMap(model),
     _primary_key_names |->
        {Models[model][i].name :
            i \in {j \in DOMAIN Models[model] : Models[model][j].primary_key}},
     _entries |-> <<>>,
     _lock |-> "",
     heap |-> <<>>]

_columns(t) == t._columns
_db_map(t) == t._db_map
_column_names(t) == t._column_names
_primary_key_names(t) == t._primary_key_names

\* dict.get(key, default)
DictGet(d, key, default) == IF key \in DOMAIN d THEN d[key] ELSE default

\* self._columns.get(name): the column declared under that (model) name, or None
ColumnType(t, name) ==
    LET cols == _columns(t)
        hit == {i \in DOMAIN cols : cols[i].name = name}
    IN  IF hit = {} THEN "NoneType" ELSE cols[CHOOSE i \in hit : TRUE].type

\* the value a cell stands for
Deref(heap, cell) == IF cell.kind = "ref" THEN heap[cell.i] ELSE cell

\* a row with every reference replaced by the object's value
RowValue(heap, row) == [c \in DOMAIN row |-> Deref(heap, row[c])]

\* the table's rows by value
Rows(t) == [i \in DOMAIN t._entries |-> RowValue(t.heap, t._entries[i])]

(***************************************************************************)
(* Object identities carry no meaning beyond which cells share an object.  *)
(* Canon drops the objects no cell refers to and numbers the others in     *)
(* the order of their first use, row by row.                               *)
(***************************************************************************)
\* the cell at position p, counting the cells row by row
CellAt(t, p) ==
    LET n == Len(_columns(t))
    IN  t._entries[((p - 1) \div n) + 1][_columns(t)[((p - 1) % n) + 1].db_field_name]

\* the objects referred to from position p on, in the order of their first use
RECURSIVE RefOrder(_, _, _)
RefOrder(t, p, order) ==
    IF p > Len(t._entries) * Len(_columns(t)) THEN order
    ELSE The({RefOrder(t, p + 1,
                       IF c.kind = "ref" /\ \A k \in DOMAIN order : order[k] # c.i
                       THEN Append(order, c.i) ELSE order) :
              c \in {CellAt(t, p)}})

Canon(t) ==
    IF t.heap = <<>> THEN t
    ELSE The({[t EXCEPT
                 !._entries = [r \in DOMAIN t._entries |->
                                 [c \in DOMAIN t._entries[r] |->
                                     IF t._entries[r][c].kind = "ref"
                                     THEN PyRef(CHOOSE k \in DOMAIN order :
                                                   order[k] = t._entries[r][c].i)
                                     ELSE t._entries[r][c]]],
                 !.heap = [k \in DOMAIN order |-> t.heap[order[k]]]] :
              order \in {RefOrder(t, 1, <<>>)}})

\* a _default_value that knows no container column
_default_value_scalar(t, column_name) == PyNone

\* Table._default_value (connection.py:169-178)
_default_value(t, column_name) ==
    LET name == DictGet(_db_map(t), column_name, column_name)
        type == ColumnType(t, name)
    IN  CASE type = "List" -> PyList(<<>>)
          [] type = "Set" -> PySet({})
          [] type = "Map" -> PyDict(EmptyMap)
          [] OTHER -> PyNone

\* a _find_by_pk that finds no row
_find_by_pk_nothing(t, pks) == 0

\* a _find_by_pk that compares no cell, and so finds the first row
_find_by_pk_first(t, pks) == IF t._entries = <<>> THEN 0 ELSE 1

\* Table._find_by_pk (connection.py:110-120): the index of the first row whose
\* primary-key cells equal pks, or 0 (None).  Indices are 1-based here.
_find_by_pk(t, pks) ==
    LET matches == {idx \in DOMAIN t._entries :
                      \A pk_name \in DOMAIN pks :
                          Deref(t.heap, t._entries[idx][pk_name]) = pks[pk_name]}
    IN  IF matches = {} THEN 0
        ELSE CHOOSE idx \in matches : \A other \in matches : idx <= other

\* storing a value in a cell: a mutable value becomes an object of the heap
Store(heap, v) ==
    IF IsMutable(v)
    THEN [heap |-> Append(heap, v), cell |-> PyRef(Len(heap) + 1)]
    ELSE [heap |-> heap, cell |-> v]

\* an entry with a cell put under a column name
Put(entry, column_name, cell) ==
    [c \in DOMAIN entry \cup {column_name} |-> IF c = column_name THEN cell ELSE entry[c]]

\* the entry Table.insert builds (connection.py:189-193), column by column from
\* position i on: values.get(column_name, self._default_value(column_name))
RECURSIVE BuildEntry(_, _, _, _, _)
BuildEntry(t, values, i, heap, entry) ==
    IF i > Len(_columns(t)) THEN [heap |-> heap, entry |-> entry]
    ELSE The({The({BuildEntry(t, values, i + 1, st.heap, e) :
                   e \in {Put(entry, _columns(t)[i].db_field_name, st.cell)}}) :
              st \in {Store(heap, DictGet(values, _columns(t)[i].db_field_name,
                                          _default_value(t, _columns(t)[i].db_field_name)))}})

\* an insert that asks for no primary key
MissingKeys_unchecked(t, entry) == {}

\* the primary-key fields for which entry.get(pk_field) is None
\* (connection.py:196-198)
MissingKeys(t, entry) ==
    {pk_field \in _primary_key_names(t) : DictGet(entry, pk_field, PyNone) = PyNone}

\* the primary-key cells of an entry, by value: the pks of Table._find_by_pk
PksOf(t, built) ==
    [pk_name \in _primary_key_names(t) |-> Deref(built.heap, built.entry[pk_name])]

\* an insert that replaces the row of its key whatever if_not_exists is
insert_unconditional(t, values, if_not_exists) ==
    The({The({IF MissingKeys(t, built.entry) # {}
              THEN [t |-> t, raised |-> "CQLEngineException", entry_idx |-> 0]
              ELSE [t |-> Canon([t EXCEPT
                                   !.heap = built.heap,
                                   !._entries = IF entry_idx # 0
                                                THEN [@ EXCEPT ![entry_idx] = built.entry]
                                                ELSE Append(@, built.entry)]),
                    raised |-> "", entry_idx |-> entry_idx] :
              entry_idx \in {_find_by_pk(t, PksOf(t, built))}}) :
         built \in {BuildEntry(t, values, 1, t.heap, EmptyMap)}})

\* Table.insert (connection.py:181-213).  The outcome is the table afterwards,
\* the exception raised ("" when none) and the local entry_idx.
insert(t, values, if_not_exists) ==
    The({The({IF MissingKeys(t, built.entry) # {}
              THEN [t |-> t, raised |-> "CQLEngineException", entry_idx |-> 0]
              ELSE IF entry_idx # 0 /\ if_not_exists
              THEN [t |-> t, raised |-> "LWTException", entry_idx |-> entry_idx]
              ELSE [t |-> Canon([t EXCEPT
                                   !.heap = built.heap,
                                   !._entries = IF entry_idx # 0
                                                THEN [@ EXCEPT ![entry_idx] = built.entry]
                                                ELSE Append(@, built.entry)]),
                    raised |-> "", entry_idx |-> entry_idx] :
              entry_idx \in {_find_by_pk(t, PksOf(t, built))}}) :
         built \in {BuildEntry(t, values, 1, t.heap, EmptyMap)}})

\* whether a row matches the equality filters (connection.py:133-141)
Matches(t, idx, kwargs) ==
    \A kwarg_name \in DOMAIN kwargs :
        /\ kwarg_name \in DOMAIN t._entries[idx]
        /\ Deref(t.heap, t._entries[idx][kwarg_name]) = kwargs[kwarg_name]

\* the scan of Table._get_indices_by_kwargs from row idx on (connection.py:131-150)
RECURSIVE ScanIndices(_, _, _, _, _)
ScanIndices(t, limit, kwargs, idx, indices) ==
    IF idx > Len(t._entries) THEN indices
    ELSE The({IF limit # PyNone /\ PyInt(Len(found)) = limit
              THEN found
              ELSE ScanIndices(t, limit, kwargs, idx + 1, found) :
              found \in {IF Matches(t, idx, kwargs) THEN Append(indices, idx) ELSE indices}})

\* Table._get_indices_by_kwargs (connection.py:122-150); indices are 1-based here
_get_indices_by_kwargs(t, limit, kwargs) ==
    IF DOMAIN kwargs = {}
    THEN [i \in 1..Len(t._entries) |-> i]
    ELSE ScanIndices(t, limit, kwargs, 1, <<>>)

\* Table._get_item_by_idx (connection.py:98-108)
_get_item_by_idx(t, idx, select) ==
    LET key(field_name) == DictGet(_db_map(t), field_name, field_name)
    IN  [k \in {key(select[j]) : j \in DOMAIN select} |->
            t._entries[idx][select[CHOOSE j \in DOMAIN select :
                /\ key(select[j]) = k
                /\ \A j2 \in DOMAIN select : key(select[j2]) = k => j2 <= j]]]

\* a copy that shares the container objects of the row
deepcopy_shallow(heap, row) == row

\* copy.deepcopy of a row (connection.py:164): the containers of the copy are
\* new objects that nothing else refers to, so the copy holds them by value
deepcopy(heap, row) == RowValue(heap, row)

\* Table.find (connection.py:152-167): the rows found, deep-copied, or KeyError
\* when a selected field is no key of the row
find(t, filters, limit, select) ==
    The({IF indices # <<>> /\ \E j \in DOMAIN select : select[j] \notin _column_names(t)
         THEN [rows |-> <<>>, raised |-> "KeyError", indices |-> indices]
         ELSE [rows |-> [n \in DOMAIN indices |->
                           deepcopy(t.heap, _get_item_by_idx(t, indices[n], select))],
               raised |-> "", indices |-> indices] :
         indices \in {_get_indices_by_kwargs(t, limit, filters)}})

DEFAULT_OPERATOR == "assign"
SUPPORTED_OPERATIONS == {"append", "prepend", "update", "remove", "add", DEFAULT_OPERATOR}

\* an in-place operator that leaves the object as it was
SetObject_keep(t, cell, v) == t

\* the object a cell refers to, replaced in place
SetObject(t, cell, v) == [t EXCEPT !.heap[cell.i] = v]

\* a cell of a row, rebound
SetCell(t, item_idx, column, cell) == [t EXCEPT !._entries[item_idx][column] = cell]

\* Table._assign_value (connection.py:215-234).  value is the cell of the caller's
\* value: the reference to the caller's object when the value is a container.
\* The stored value cur is None or of the column's kind, and the caller's value is
\* of the operator's kind; any other pairing is a Python error as well.
_assign_value(t, item_idx, column, operator, value) ==
    LET cell == t._entries[item_idx][column]
        cur == Deref(t.heap, cell)
        val == Deref(t.heap, value)
        type == ColumnType(t, column)
        ok(t2) == [t |-> t2, raised |-> ""]
        fail(e) == [t |-> t, raised |-> e]
        fresh(v) == [t |-> [t EXCEPT !.heap = Append(@, v),
                                     !._entries[item_idx][column] = PyRef(Len(t.heap) + 1)],
                     raised |-> ""]
    IN  IF operator = DEFAULT_OPERATOR
        THEN ok(SetCell(t, item_idx, column, value))
        ELSE IF type = "NoneType" THEN fail("KeyError")
        ELSE IF type = "List" /\ operator = "append"
        THEN IF cur.kind = "list" /\ val.kind = "list"
             THEN ok(SetObject(t, cell, PyList(cur.l \o val.l)))
             ELSE fail("TypeError")
        ELSE IF type = "List" /\ operator = "prepend"
        THEN IF cur.kind = "list" /\ val.kind = "list"
             THEN fresh(PyList(val.l \o cur.l))
             ELSE fail("TypeError")
        ELSE IF type = "Set" /\ operator = "add"
        THEN IF cur.kind = "set" /\ val.kind = "set"
             THEN ok(SetObject(t, cell, PySet(cur.s \cup val.s)))
             ELSE fail(IF cur.kind = "set" THEN "TypeError" ELSE "AttributeError")
        ELSE IF type = "Set" /\ operator = "remove"
        THEN IF cur.kind = "set" /\ val.kind = "set"
             THEN ok(SetObject(t, cell, PySet(cur.s \ val.s)))
             ELSE fail("TypeError")
        ELSE IF type = "Map" /\ operator = "update"
        THEN IF cur.kind = "dict" /\ val.kind = "dict"
             THEN ok(SetObject(t, cell,
                        PyDict([k \in DOMAIN cur.m \cup DOMAIN val.m |->
                                   IF k \in DOMAIN val.m THEN val.m[k] ELSE cur.m[k]])))
             ELSE fail(IF cur.kind = "dict" THEN "TypeError" ELSE "AttributeError")
        ELSE IF type = "Map" /\ operator = "remove"
        THEN IF cur.kind = "dict" /\ val.kind = "set"
             THEN fresh(PyDict([k \in DOMAIN cur.m \ val.s |-> cur.m[k]]))
             ELSE fail(IF cur.kind = "dict" THEN "TypeError" ELSE "AttributeError")
        ELSE ok(t)

\* the caller's assignment values as cells: each container value of the list
\* values, from position k on, is an object of its own
RECURSIVE StoreValues(_, _, _, _)
StoreValues(values, k, heap, cells) ==
    IF k > Len(values) THEN [heap |-> heap, cells |-> cells]
    ELSE The({StoreValues(values, k + 1, st.heap, Append(cells, st.cell)) :
              st \in {Store(heap, values[k][3])}})

\* loops that leave a row at the first assignment to a name that is no column
RECURSIVE UpdateLoop_break(_, _, _, _, _, _)
UpdateLoop_break(t, indices, values, cells, n, k) ==
    IF n > Len(indices) THEN [t |-> t, raised |-> ""]
    ELSE IF k > Len(values) THEN UpdateLoop_break(t, indices, values, cells, n + 1, 1)
    ELSE IF values[k][1] \notin _column_names(t)
    THEN UpdateLoop_break(t, indices, values, cells, n + 1, 1)
    ELSE The({IF r.raised # "" THEN r
              ELSE UpdateLoop_break(r.t, indices, values, cells, n, k + 1) :
              r \in {_assign_value(t, indices[n], values[k][1], values[k][2], cells[k])}})

\* the loops of Table.update (connection.py:253-256), from the n-th matching row
\* and the k-th assignment on, up to the first exception
RECURSIVE UpdateLoop(_, _, _, _, _, _)
UpdateLoop(t, indices, values, cells, n, k) ==
    IF n > Len(indices) THEN [t |-> t, raised |-> ""]
    ELSE IF k > Len(values) THEN UpdateLoop(t, indices, values, cells, n + 1, 1)
    ELSE IF values[k][1] \notin _column_names(t)
    THEN UpdateLoop(t, indices, values, cells, n, k + 1)
    ELSE The({IF r.raised # "" THEN r
              ELSE UpdateLoop(r.t, indices, values, cells, n, k + 1) :
              r \in {_assign_value(t, indices[n], values[k][1], values[k][2], cells[k])}})

\* Table.update from the matching indices on (connection.py:250-256)
UpdateRows(t, indices, values, if_exists) ==
    IF indices = <<>> /\ if_exists
    THEN [t |-> t, raised |-> "LWTException", indices |-> indices]
    ELSE The({The({[t |-> Canon(r.t), raised |-> r.raised, indices |-> indices] :
                   r \in {UpdateLoop([t EXCEPT !.heap = stored.heap], indices, values,
                                     stored.cells, 1, 1)}}) :
              stored \in {StoreValues(values, 1, t.heap, <<>>)}})

\* an update that stops at the first matching row
update_first_match(t, filters, values, if_exists) ==
    The({UpdateRows(t, indices, values, if_exists) :
         indices \in {_get_indices_by_kwargs(t, PyInt(1), filters)}})

\* Table.update (connection.py:236-256); values is a list of
\* <<attribute_to_update, operator, value>>
update(t, filters, values, if_exists) ==
    The({UpdateRows(t, indices, values, if_exists) :
         indices \in {_get_indices_by_kwargs(t, PyNone, filters)}})

\* a sequence without its element at index
Without(entries, index) ==
    [j \in 1..(Len(entries) - 1) |-> IF j < index THEN entries[j] ELSE entries[j + 1]]

\* a loop that deletes the last matching row alone
DeleteLoop_once(entries, indices, n) ==
    IF n = 0 THEN entries ELSE Without(entries, indices[n])

\* a loop that deletes by ascending index, the last n of the indices being left
\* to delete; an index beyond the rows that are left ends it
RECURSIVE DeleteLoop_ascending(_, _, _)
DeleteLoop_ascending(entries, indices, n) ==
    IF n = 0 \/ indices[Len(indices) - n + 1] > Len(entries) THEN entries
    ELSE DeleteLoop_ascending(Without(entries, indices[Len(indices) - n + 1]), indices, n - 1)

\* the rows left by `for index in sorted(indices, reverse=True): del self._entries[index]`
RECURSIVE DeleteLoop(_, _, _)
DeleteLoop(entries, indices, n) ==
    IF n = 0 THEN entries
    ELSE The({DeleteLoop(left, indices, n - 1) : left \in {Without(entries, indices[n])}})

\* Table.delete from the matching indices on (connection.py:270-275)
DeleteRows(t, indices, if_exists) ==
    IF indices = <<>> /\ if_exists
    THEN [t |-> t, raised |-> "LWTException", indices |-> indices]
    ELSE [t |-> Canon([t EXCEPT !._entries = DeleteLoop(@, indices, Len(indices))]),
          raised |-> "", indices |-> indices]

\* a delete that looks for its rows, and for the conflict, before it looks at
\* whether it has filters
delete_conditional(t, filters, if_exists) ==
    The({DeleteRows(t, indices, if_exists) :
         indices \in {_get_indices_by_kwargs(t, PyNone, filters)}})

\* Table.delete (connection.py:258-275)
delete(t, filters, if_exists) ==
    IF DOMAIN filters = {}
    THEN [t |-> Canon([t EXCEPT !._entries = <<>>]), raised |-> "", indices |-> <<>>]
    ELSE The({DeleteRows(t, indices, if_exists) :
              indices \in {_get_indices_by_kwargs(t, PyNone, filters)}})

(***************************************************************************)
(* Statements and the two executors.                                       *)
(***************************************************************************)
\* a where, assignment or field clause; _operation is "" where the clause has
\* no such attribute
Clause(field, operation, value) ==
    [field |-> field, _operation |-> operation, value |-> value]

\* a statement; table holds the parts of the dotted name keyspace.table
Statement(kind, table, where_clauses, assigned, fields, limit, if_exists, if_not_exists) ==
    [kind |-> kind, table |-> table, where_clauses |-> where_clauses,
     assignments |-> assigned, fields |-> fields, limit |-> limit,
     if_exists |-> if_exists, if_not_exists |-> if_not_exists]

\* the loop of clauses_to_dict from position i on
RECURSIVE ClausesToDict(_, _, _)
ClausesToDict(clauses, i, payload) ==
    IF i > Len(clauses) THEN payload
    ELSE ClausesToDict(clauses, i + 1,
                       [f \in DOMAIN payload \cup {clauses[i].field} |->
                           IF f = clauses[i].field THEN clauses[i].value ELSE payload[f]])

\* clauses_to_dict (connection.py:433-438)
clauses_to_dict(clauses) == ClausesToDict(clauses, 1, EmptyMap)

\* getattr(assignment, '_operation', DEFAULT_OPERATOR) (connection.py:458)
OperationOf(assignment) ==
    IF "_operation" \in DOMAIN assignment THEN assignment._operation ELSE DEFAULT_OPERATOR

\* an _assigment_to_operator that hands the clause's operation on as it is
_assigment_to_operator_raw(assignment) == OperationOf(assignment)

\* _assigment_to_operator (connection.py:452-464)
_assigment_to_operator(assignment) ==
    The({IF operation # "" /\ operation \in SUPPORTED_OPERATIONS
         THEN operation
         ELSE DEFAULT_OPERATOR :
         operation \in {OperationOf(assignment)}})

\* _assignment_to_tuple (connection.py:467-468)
_assignment_to_tuple(assignment) ==
    <<assignment.field, _assigment_to_operator(assignment), assignment.value>>

\* assignments_to_list (connection.py:471-477)
assignments_to_list(assigned) ==
    [i \in DOMAIN assigned |-> _assignment_to_tuple(assigned[i])]

\* attributes_matched (connection.py:480-491)
attributes_matched(source_dict, lookup_dict) ==
    /\ DOMAIN lookup_dict # {}
    /\ \A lookup_key \in DOMAIN lookup_dict :
          lookup_key \in DOMAIN source_dict /\ source_dict[lookup_key] = lookup_dict[lookup_key]

\* lookup_items (connection.py:494-502), over the module's _entries; indices are
\* 1-based here
lookup_items(entries, tbl_name, clauses) ==
    LET items == DictGet(entries, tbl_name, <<>>)
        assignments_dict == clauses_to_dict(clauses)
    IN  SelectSeq([idx \in 1..Len(items) |-> idx],
                  LAMBDA idx : attributes_matched(items[idx], assignments_dict)
                               \/ clauses = <<>>)

\* the formatter get_formatter_from_model finds for a key of a result row
\* (connection.py:565-579): "" when there is none
get_formatter_from_model(model, col_name) ==
    LET type == ColumnType(NewTable(model), col_name)
    IN  CASE type = "DateTime" -> "normalize_datetime"
          [] type = "Map" -> "process_map"
          [] type = "Set" -> "process_set"
          [] type = "List" -> "process_list"
          [] OTHER -> ""

\* a normalize_datetime that returns the number it is given
normalize_datetime_same(dt) == dt

\* normalize_datetime (connection.py:541-542): dt / 1e3.  The quotient of the
\* integer i by 1000 is the float that keeps i with the divisor 1000 in l.
normalize_datetime(dt) == [dt EXCEPT !.kind = "float", !.l = <<1000>>]

\* normalize (connection.py:582-590).  The containers of the models here hold
\* Text and Integer elements, for which normalize_value has no formatter, so
\* process_map, process_set and process_list rebuild the container they are given
\* (connection.py:505-538).
normalize(model, d) ==
    [k \in DOMAIN d |->
        IF get_formatter_from_model(model, k) = "normalize_datetime"
        THEN normalize_datetime(d[k])
        ELSE d[k]]

\* whether normalize raises: None / 1e3 is a TypeError (connection.py:541-542)
NormalizeRaises(model, d) ==
    \E k \in DOMAIN d :
        get_formatter_from_model(model, k) = "normalize_datetime" /\ d[k] = PyNone

\* what ModelQuerySet._execute returns for the rows found (connection.py:622-630)
Selected(model, r) ==
    The({IF x.raised = "" /\ \E i \in DOMAIN x.rows : NormalizeRaises(model, x.rows[i])
         THEN [rows |-> <<>>, raised |-> "TypeError"]
         ELSE [rows |-> [i \in DOMAIN x.rows |-> normalize(model, x.rows[i])],
               raised |-> x.raised] :
         x \in {r}})

\* _get_ks_table_name (connection.py:593-598)
_get_ks_table_name(model, stmt) ==
    IF Len(stmt.table) > 1
    THEN <<stmt.table[1], stmt.table[2]>>
    ELSE <<ModelKeyspace(model), stmt.table[1]>>

\* whether get_keyspace(ks_name).get_table(table_name) finds a table
\* (connection.py:295-296, 304-305)
Registered(keyspaces, ks_table) ==
    /\ ks_table[1] \in DOMAIN keyspaces
    /\ ks_table[2] \in DOMAIN keyspaces[ks_table[1]]

\* the registry after a call on the table n has left it as r.t, and what the
\* call raised
Called(keyspaces, n, r) ==
    The({[keyspaces |-> [keyspaces EXCEPT ![n[1]][n[2]] = x.t], raised |-> x.raised] :
         x \in {r}})

\* ModelQuerySet._execute without a batch (connection.py:609-638): the registry
\* afterwards and the exception raised
ModelQuerySet_execute(keyspaces, model, statement) ==
    The({IF ~Registered(keyspaces, n)
         THEN [keyspaces |-> keyspaces, raised |-> "KeyError"]
         ELSE The({CASE statement.kind = "SelectStatement" ->
                          The({[keyspaces |-> keyspaces, raised |-> r.raised] :
                               r \in {Selected(model,
                                               find(table, where, statement.limit,
                                                    statement.fields))}})
                     [] statement.kind = "UpdateStatement" ->
                          The({Called(keyspaces, n, r) :
                               r \in {update(table, where,
                                             assignments_to_list(statement.assignments),
                                             statement.if_exists)}})
                     [] statement.kind = "DeleteStatement" ->
                          The({Called(keyspaces, n, r) :
                               r \in {delete(table, where, statement.if_exists)}})
                     [] OTHER -> [keyspaces |-> keyspaces, raised |-> ""] :
                   table \in {keyspaces[n[1]][n[2]]},
                   where \in {clauses_to_dict(statement.where_clauses)}}) :
         n \in {_get_ks_table_name(model, statement)}})

\* the module's _entries after the loop of DMLQuery._execute that sets the
\* fields of a delete statement in the items found (connection.py:681-684)
SetFields(entries, tbl_name, indices, fields) ==
    LET hit == {indices[i] : i \in DOMAIN indices}
        set(item) == [f \in DOMAIN item \cup {fields[j].field : j \in DOMAIN fields} |->
                        IF \E j \in DOMAIN fields : fields[j].field = f
                        THEN fields[CHOOSE j \in DOMAIN fields :
                                      /\ fields[j].field = f
                                      /\ \A j2 \in DOMAIN fields :
                                            fields[j2].field = f => j2 <= j].value
                        ELSE item[f]]
    IN  IF hit = {} THEN entries
        ELSE [entries EXCEPT ![tbl_name] =
                 [idx \in DOMAIN @ |-> IF idx \in hit THEN set(@[idx]) ELSE @[idx]]]

\* an executor that registers the keyspace and the table of its model itself
DMLQuery_execute_creating(keyspaces, entries, model, statement) ==
    [keyspaces |-> [k \in DOMAIN keyspaces \cup {ModelKeyspace(model)} |->
                       [n \in {ColumnFamilyName(model)} |-> NewTable(model)]],
     entries |-> entries, raised |-> ""]

\* DMLQuery._execute without a batch (connection.py:658-691): the registry and
\* the module's _entries afterwards, and the exception raised
DMLQuery_execute(keyspaces, entries, model, statement) ==
    The({IF ~Registered(keyspaces, n)
         THEN [keyspaces |-> keyspaces, entries |-> entries, raised |-> "KeyError"]
         ELSE The({CASE statement.kind = "InsertStatement" ->
                          The({[keyspaces |-> r.keyspaces, entries |-> entries,
                                raised |-> r.raised] :
                               r \in {Called(keyspaces, n,
                                             insert(table,
                                                    clauses_to_dict(statement.assignments),
                                                    statement.if_not_exists))}})
                     [] statement.kind = "DeleteStatement" /\ statement.fields # <<>> ->
                          [keyspaces |-> keyspaces,
                           entries |-> SetFields(entries, statement.table,
                                                 lookup_items(entries, statement.table,
                                                              statement.where_clauses),
                                                 statement.fields),
                           raised |-> ""]
                     [] statement.kind = "DeleteStatement" /\ statement.fields = <<>> ->
                          The({[keyspaces |-> r.keyspaces, entries |-> entries,
                                raised |-> r.raised] :
                               r \in {Called(keyspaces, n, delete(table, where, FALSE))}})
                     [] statement.kind = "UpdateStatement" ->
                          The({[keyspaces |-> r.keyspaces, entries |-> entries,
                                raised |-> r.raised] :
                               r \in {Called(keyspaces, n,
                                             update(table, where,
                                                    assignments_to_list(statement.assignments),
                                                    FALSE))}})
                     [] OTHER -> [keyspaces |-> keyspaces, entries |-> entries, raised |-> ""] :
                   table \in {keyspaces[n[1]][n[2]]},
                   where \in {clauses_to_dict(statement.where_clauses)}}) :
         n \in {_get_ks_table_name(model, statement)}})

(***************************************************************************)
(* The registry: keyspaces and their tables (connection.py:278-313), and   *)
(* sync_table (base/management.py:62-95).                                  *)
(***************************************************************************)
\* a create_keyspace that keeps the keyspace a name is bound to already
create_keyspace_once(keyspaces, name) ==
    [k \in DOMAIN keyspaces \cup {name} |-> IF k \in DOMAIN keyspaces THEN keyspaces[k] ELSE EmptyMap]

\* create_keyspace (connection.py:299-301): name is bound to a new Keyspace,
\* whose _tables is empty
create_keyspace(keyspaces, name) ==
    [k \in DOMAIN keyspaces \cup {name} |-> IF k = name THEN EmptyMap ELSE keyspaces[k]]

\* Keyspace.add_table (connection.py:287-293) for the fields of a model
add_table(tables, model) ==
    [n \in DOMAIN tables \cup {ColumnFamilyName(model)} |->
        IF n = ColumnFamilyName(model) THEN NewTable(model) ELSE tables[n]]

\* a _sync_table that adds the table whether the keyspace holds it or not
_sync_table_anew(keyspaces, model) ==
    IF ModelKeyspace(model) \notin DOMAIN keyspaces
    THEN [keyspaces |-> keyspaces, raised |-> "CQLEngineException"]
    ELSE [keyspaces |-> [keyspaces EXCEPT ![ModelKeyspace(model)] = add_table(@, model)],
          raised |-> ""]

\* _sync_table (management.py:62-95): the registry afterwards and the exception
\* raised; a table the keyspace holds already is left as it is
_sync_table(keyspaces, model) ==
    IF ModelKeyspace(model) \notin DOMAIN keyspaces
    THEN [keyspaces |-> keyspaces, raised |-> "CQLEngineException"]
    ELSE IF ColumnFamilyName(model) \in DOMAIN keyspaces[ModelKeyspace(model)]
    THEN [keyspaces |-> keyspaces, raised |-> ""]
    ELSE [keyspaces |-> [keyspaces EXCEPT ![ModelKeyspace(model)] = add_table(@, model)],
          raised |-> ""]

\* flush (connection.py:311-313): the module's _entries afterwards
flush(entries) == EmptyMap

\* get_keyspace (connection.py:304-305): `_keyspaces[ks_name]`, a plain dict
\* subscript, which raises KeyError for a missing key and stores nothing
get_keyspace(keyspaces, ks_name) ==
    IF ks_name \in DOMAIN keyspaces
    THEN [value |-> keyspaces[ks_name], raised |-> ""]
    ELSE [value |-> EmptyMap, raised |-> "KeyError"]

\* Keyspace.get_table (connection.py:295-296) on the tables of a keyspace
get_table(tables, table_name) ==
    IF table_name \in DOMAIN tables
    THEN [value |-> tables[table_name], raised |-> ""]
    ELSE [value |-> EmptyMap, raised |-> "KeyError"]

(***************************************************************************)
(* The inputs of the calls.                                                *)
(***************************************************************************)
\* the elements, keys and values of the containers callers pass
Elements == 1..MaxPayload

\* the container values callers pass: empty, or of one element
ListValues == {PyList(<<>>)} \cup {PyList(<<e>>) : e \in Elements}
SetValues == {PySet({})} \cup {PySet({e}) : e \in Elements}
DictValues == {PyDict(EmptyMap)} \cup {PyDict([k \in {key} |-> e]) : key \in Elements, e \in Elements}

\* the number of elements the container objects of a table hold together
RECURSIVE HeapSize(_, _)
HeapSize(heap, n) ==
    IF n = 0 THEN 0
    ELSE HeapSize(heap, n - 1)
         + (CASE heap[n].kind = "list" -> Len(heap[n].l)
              [] heap[n].kind = "set" -> Cardinality(heap[n].s)
              [] heap[n].kind = "dict" -> Cardinality(DOMAIN heap[n].m)
              [] OTHER -> 0)

\* the bound on the containers of a table
Bounded(t) == Len(t._entries) <= MaxRows /\ HeapSize(t.heap, Len(t.heap)) <= MaxSize

DbType(t, column_name) == ColumnType(t, DictGet(_db_map(t), column_name, column_name))

IsKey(t, column_name) ==
    \E i \in DOMAIN _columns(t) :
        _columns(t)[i].db_field_name = column_name /\ _columns(t)[i].primary_key

\* the values (other than None) callers pass for a column
ValuesOf(t, column_name) ==
    LET type == DbType(t, column_name)
    IN  CASE type = "List" -> ListValues
          [] type = "Set" -> SetValues
          [] type = "Map" -> DictValues
          [] OTHER -> IF IsKey(t, column_name) THEN KeyValues ELSE PayloadValues

ScalarColumnNames(t) ==
    {c \in _column_names(t) : DbType(t, c) \notin {"List", "Set", "Map"}}

\* the dicts over the keys D whose value under c is one of vals[c]
Dicts(D, vals) ==
    LET all == UNION {vals[c] : c \in D}
    IN  {d \in [D -> all] : \A c \in D : d[c] \in vals[c]}

\* the values dicts of insert: any subset of the columns, each with a value of
\* its type, or None for a scalar column
InsertValues(t) ==
    LET vals == [c \in _column_names(t) |->
                    ValuesOf(t, c) \cup (IF c \in ScalarColumnNames(t) THEN {PyNone} ELSE {})]
    IN  UNION {Dicts(D, vals) : D \in SUBSET _column_names(t)}

\* the filters: none, one scalar column, the scalar columns together, or a key
\* that is no column
Filters(t) ==
    LET doms == {{}} \cup {{c} : c \in ScalarColumnNames(t)} \cup {ScalarColumnNames(t)}
        vals == [c \in _column_names(t) |-> ValuesOf(t, c)]
    IN  UNION {Dicts(D, vals) : D \in doms} \cup {[c \in {"nickname"} |-> PyInt(1)]}

Limits == {PyNone} \cup {PyInt(n) : n \in 0..MaxRows}

AllFields(t) == [i \in DOMAIN _columns(t) |-> _columns(t)[i].db_field_name]

\* the columns the updates assign to: the columns that are no key, as in the
\* acceptance test, and in the model of keys alone the clustering key
Assigned(t) ==
    IF \A c \in _column_names(t) : IsKey(t, c) THEN {"company"}
    ELSE {c \in _column_names(t) : ~IsKey(t, c)}

\* the assignments of update: assign, the collection operators of the column's
\* kind, and an assignment to a key that is no column
Assignments(t) ==
    LET on(c) ==
          LET type == DbType(t, c)
          IN  {<<c, "assign", v>> : v \in ValuesOf(t, c) \cup {PyNone}}
              \cup (IF type = "List"
                    THEN {<<c, op, PyList(<<e>>)>> : op \in {"append", "prepend"}, e \in Elements}
                    ELSE {})
              \cup (IF type = "Set"
                    THEN {<<c, op, PySet({e})>> : op \in {"add", "remove"}, e \in Elements}
                    ELSE {})
              \cup (IF type = "Map"
                    THEN {<<c, "update", v>> : v \in DictValues \ {PyDict(EmptyMap)}}
                         \cup {<<c, "remove", PySet({e})>> : e \in Elements}
                    ELSE {})
    IN  UNION {on(c) : c \in Assigned(t)} \cup {<<"nickname", "assign", PyInt(1)>>}

\* the assignment lists: one assignment, or two to different attributes
AssignmentLists(t) ==
    {<<a>> : a \in Assignments(t)}
    \cup {<<p[1], p[2]>> : p \in {q \in Assignments(t) \X Assignments(t) : q[1][1] # q[2][1]}}

\* a dict as a list of clauses, in the order of the columns
ClausesOf(t, d) ==
    LET names == SelectSeq(AllFields(t), LAMBDA c : c \in DOMAIN d)
    IN  [i \in DOMAIN names |-> Clause(names[i], "", d[names[i]])]

\* the where-clauses of statements: equalities on columns
Wheres(t) == {ClausesOf(t, d) : d \in {f \in Filters(t) : DOMAIN f \subseteq _column_names(t)}}

\* the where-clauses of delete statements, which name the primary key
KeyedWheres(t) ==
    {w \in Wheres(t) :
        \A pk \in _primary_key_names(t) : \E i \in DOMAIN w : w[i].field = pk}

\* the dotted name model.column_family_name() of a statement's table
TableOf(model) == <<ModelKeyspace(model), ColumnFamilyName(model)>>

SelectStatements(model) ==
    LET t == NewTable(model)
    IN  {Statement("SelectStatement", TableOf(model), w, <<>>, AllFields(t), limit, FALSE, FALSE) :
            w \in Wheres(t), limit \in Limits}

\* an assignment of a statement: a clause without _operation for a plain one
UpdateStatements(model) ==
    LET t == NewTable(model)
        clause(a) == Clause(a[1], IF a[2] = DEFAULT_OPERATOR THEN "" ELSE a[2], a[3])
    IN  {Statement("UpdateStatement", TableOf(model), w, <<clause(a)>>, <<>>, PyNone, flag, FALSE) :
            w \in Wheres(t), a \in Assignments(t), flag \in BOOLEAN}

\* the update statements of an instance, which name its primary key
InstanceUpdateStatements(model) ==
    {statement \in UpdateStatements(model) :
        statement.where_clauses \in KeyedWheres(NewTable(model))}

\* delete statements of rows, and of one field of a row
DeleteStatements(model) ==
    LET t == NewTable(model)
        none == {<<>>}
        one == {<<Clause(c, "", PyNone)>> : c \in _column_names(t) \ _primary_key_names(t)}
    IN  {Statement("DeleteStatement", TableOf(model), w, <<>>, fields, PyNone, flag, FALSE) :
            w \in KeyedWheres(t), fields \in none \cup one, flag \in BOOLEAN}

\* the delete statements that carry field targets
FieldDeletes(model) == {st \in DeleteStatements(model) : st.fields # <<>>}

\* insert statements, which carry the primary key
InsertStatements(model) ==
    LET t == NewTable(model)
    IN  {Statement("InsertStatement", TableOf(model), <<>>, ClausesOf(t, values), <<>>, PyNone,
                   FALSE, flag) :
            values \in {v \in InsertValues(t) : _primary_key_names(t) \subseteq DOMAIN v},
            flag \in BOOLEAN}

\* the models statements are executed for
ExecModels == {"user_height", "user_log"}

(***************************************************************************)
(* The last call, and the history of inserts.                              *)
(***************************************************************************)
\* what last keeps of a call: the operation, its conditional flag, whether its
\* filters were empty, whether an insert left a column out, the limit of a find,
\* the number of rows before the call, the exception raised ("" when none) and
\* the number of rows the call found (by primary key or by its filters)
NoCall ==
    [op |-> "", stmt |-> "", ks |-> "", table |-> "", flag |-> FALSE, unfiltered |-> FALSE,
     partial |-> FALSE, limit |-> PyNone, nrows |-> 0, raised |-> "", hits |-> 0,
     operator |-> "", rows |-> <<>>]

TableAt(ks, name) == _keyspaces[ks][name]

\* the primary-key tuple of a row (by value)
KeyOf(t, row) == [pk_name \in _primary_key_names(t) |-> row[pk_name]]

\* whether a row (by value) satisfies the equality filters
RowMatches(row, filters) ==
    \A f \in DOMAIN filters : f \in DOMAIN row /\ row[f] = filters[f]

NoLatest == [valid |-> FALSE, rows |-> EmptyMap]

\* the history after a successful insert of the row entry (by value)
LatestInsert(h, t, entry) ==
    IF ~h.valid THEN h
    ELSE [h EXCEPT !.rows = [k \in DOMAIN h.rows \cup {KeyOf(t, entry)} |->
                                IF k = KeyOf(t, entry) THEN entry ELSE h.rows[k]]]

\* the history after a successful delete with the given filters
LatestDelete(h, filters) ==
    IF ~h.valid THEN h
    ELSE [h EXCEPT !.rows = [k \in {x \in DOMAIN h.rows : ~RowMatches(h.rows[x], filters)} |->
                                h.rows[k]]]

\* the default a column reverts to: the empty container of its declared kind,
\* None for a scalar
DefaultOf(type) ==
    CASE type = "List" -> PyList(<<>>)
      [] type = "Set" -> PySet({})
      [] type = "Map" -> PyDict(EmptyMap)
      [] OTHER -> PyNone

\* the declared kind of the column stored under a database field name
DeclaredType(t, c) ==
    LET cols == _columns(t)
    IN  cols[CHOOSE i \in DOMAIN cols : cols[i].db_field_name = c].type

\* the row an insert of values leaves under its key, by value: the values
\* given, and the default for every column left out
EntryValue(t, values) ==
    [c \in _column_names(t) |->
        IF c \in DOMAIN values THEN values[c] ELSE DefaultOf(DeclaredType(t, c))]

\* the values name every primary-key column with a non-null value
HasFullKey(t, values) ==
    \A pk \in _primary_key_names(t) : pk \in DOMAIN values /\ values[pk] # PyNone

\* the positions of the rows whose primary-key tuple is the one in values
RowsWithKey(t, values) ==
    {i \in DOMAIN t._entries :
        \A pk \in _primary_key_names(t) : Rows(t)[i][pk] = values[pk]}

\* the values name a primary-key tuple that a row of the table holds
HasHeldKey(t, values) == HasFullKey(t, values) /\ RowsWithKey(t, values) # {}

\* the positions of the rows that satisfy the filters, in insertion order
MatchingIndices(t, filters) ==
    SelectSeq([i \in 1..Len(t._entries) |-> i],
              LAMBDA i : RowMatches(Rows(t)[i], filters))

\* Table.insert called on a registered table
TableInsert ==
    \E ks \in DOMAIN _keyspaces : \E name \in DOMAIN _keyspaces[ks] :
    \E t \in {TableAt(ks, name)} :
    \E values \in InsertValues(t), if_not_exists \in BOOLEAN :
    \E r \in {insert(t, values, if_not_exists)} :
        /\ Bounded(r.t)
        /\ _keyspaces' = [_keyspaces EXCEPT ![ks][name] = r.t]
        /\ last' = [NoCall EXCEPT !.op = "insert", !.ks = ks, !.table = name,
                                  !.flag = if_not_exists,
                                  !.partial = (DOMAIN values # _column_names(t)),
                                  !.nrows = Len(t._entries), !.raised = r.raised,
                                  !.hits = IF r.entry_idx = 0 THEN 0 ELSE 1]
        /\ latest' = IF r.raised # "" THEN latest
                     ELSE [latest EXCEPT ![<<ks, name>>] =
                              LatestInsert(@, t, EntryValue(t, values))]
        /\ UNCHANGED <<_entries, threads, serial>>

\* Table.find called on a registered table
TableFind ==
    \E ks \in DOMAIN _keyspaces : \E name \in DOMAIN _keyspaces[ks] :
    \E t \in {TableAt(ks, name)} :
    \E filters \in Filters(t), limit \in Limits :
    \E r \in {find(t, filters, limit, AllFields(t))} :
        /\ last' = [NoCall EXCEPT !.op = "find", !.ks = ks, !.table = name,
                                  !.unfiltered = (DOMAIN filters = {}),
                                  !.limit = limit, !.nrows = Len(t._entries),
                                  !.raised = r.raised, !.hits = Len(r.indices)]
        /\ UNCHANGED <<_keyspaces, _entries, latest, threads, serial>>

\* Table.update called on a registered table
TableUpdate ==
    \E ks \in DOMAIN _keyspaces : \E name \in DOMAIN _keyspaces[ks] :
    \E t \in {TableAt(ks, name)} :
    \E filters \in Filters(t), values \in AssignmentLists(t), if_exists \in BOOLEAN :
    \E r \in {update(t, filters, values, if_exists)} :
        /\ Bounded(r.t)
        /\ _keyspaces' = [_keyspaces EXCEPT ![ks][name] = r.t]
        /\ last' = [NoCall EXCEPT !.op = "update", !.ks = ks, !.table = name,
                                  !.unfiltered = (DOMAIN filters = {}),
                                  !.flag = if_exists, !.nrows = Len(t._entries),
                                  !.raised = r.raised, !.hits = Len(r.indices)]
        /\ latest' = [latest EXCEPT ![<<ks, name>>] = NoLatest]
        /\ UNCHANGED <<_entries, threads, serial>>

\* the plain assignments to the columns of the table that updates assign to
ColumnAssignments(t) ==
    {a \in Assignments(t) : a[1] \in _column_names(t) /\ a[2] = DEFAULT_OPERATOR}

\* the assignment lists in which an assignment to a name that is no column of
\* the table comes before, after or between assignments to columns
MixedLists(t) ==
    LET unknown == <<"nickname", "assign", PyInt(1)>>
    IN  {<<unknown, a>> : a \in ColumnAssignments(t)}
        \cup {<<a, unknown>> : a \in ColumnAssignments(t)}
        \cup {<<p[1], unknown, p[2]>> : p \in ColumnAssignments(t) \X ColumnAssignments(t)}

\* Table.update with such a list, on every row or on the rows that hold a value
\* in one column; last keeps the number of rows matched
MixedUpdate ==
    \E ks \in DOMAIN _keyspaces : \E name \in DOMAIN _keyspaces[ks] :
    \E t \in {TableAt(ks, name)} :
    \E filters \in {f \in Filters(t) : Cardinality(DOMAIN f) <= 1}, values \in MixedLists(t) :
    \E r \in {update(t, filters, values, FALSE)} :
        /\ _keyspaces' = [_keyspaces EXCEPT ![ks][name] = r.t]
        /\ last' = [NoCall EXCEPT !.op = "update", !.operator = "mixed",
                                  !.nrows = Len(t._entries),
                                  !.raised = r.raised, !.hits = Len(r.indices)]
        /\ latest' = [latest EXCEPT ![<<ks, name>>] = NoLatest]
        /\ UNCHANGED <<_entries, threads, serial>>

\* the filters on columns of the table
ColumnFilters(t) == {f \in Filters(t) : DOMAIN f \subseteq _column_names(t)}

\* Table.insert of a row into the table of a container model: the key, and the
\* container column given or left out
ContainerInsert ==
    \E ks \in DOMAIN _keyspaces : \E name \in DOMAIN _keyspaces[ks] :
    \E t \in {TableAt(ks, name)} :
    \E values \in {v \in InsertValues(t) : HasFullKey(t, v)} :
    \E r \in {insert(t, values, FALSE)} :
        /\ Bounded(r.t)
        /\ _keyspaces' = [_keyspaces EXCEPT ![ks][name] = r.t]
        /\ last' = [NoCall EXCEPT !.op = "insert", !.raised = r.raised]
        /\ UNCHANGED <<_entries, latest, threads, serial>>

\* Table.update of the container column of a model by one assignment (a plain
\* one, or a collection operator of the column's kind), on the rows of a key or
\* on every row; last keeps whether a row matched
ContainerUpdate ==
    \E ks \in DOMAIN _keyspaces : \E name \in DOMAIN _keyspaces[ks] :
    \E t \in {TableAt(ks, name)} :
    \E filters \in ColumnFilters(t), a \in {x \in Assignments(t) : x[1] \in _column_names(t)} :
    \E r \in {update(t, filters, <<a>>, FALSE)} :
        /\ Bounded(r.t)
        /\ _keyspaces' = [_keyspaces EXCEPT ![ks][name] = r.t]
        /\ last' = [NoCall EXCEPT !.op = "update", !.operator = a[2], !.raised = r.raised,
                                  !.hits = IF r.indices = <<>> THEN 0 ELSE 1]
        /\ UNCHANGED <<_entries, latest, threads, serial>>

\* Table.find of the rows of a key on the table of a container model; last
\* keeps the rows returned, which the caller holds
ContainerFind ==
    \E ks \in DOMAIN _keyspaces : \E name \in DOMAIN _keyspaces[ks] :
    \E t \in {TableAt(ks, name)} :
    \E filters \in {f \in ColumnFilters(t) : DOMAIN f # {}} :
    \E r \in {find(t, filters, PyNone, AllFields(t))} :
        /\ last' = [NoCall EXCEPT !.op = "find", !.raised = r.raised, !.rows = r.rows]
        /\ UNCHANGED <<_keyspaces, _entries, latest, threads, serial>>

\* the caller of find changes a row it was returned: it rebinds a key of the
\* row to None, or mutates the container under a key in place, which changes
\* the object itself, in the table too when the table refers to that object
CallerMutates ==
    /\ last.op \in {"find", "mutate"}
    /\ \E ks \in DOMAIN _keyspaces : \E name \in DOMAIN _keyspaces[ks] :
       \E t \in {TableAt(ks, name)} :
       \E n \in DOMAIN last.rows : \E c \in DOMAIN last.rows[n] :
       \E cell \in {last.rows[n][c]} : \E held \in {Deref(t.heap, cell)} :
       \E v \in {PyNone} \cup {x \in ListValues \cup SetValues \cup DictValues :
                                  x.kind = held.kind /\ x # held} :
           /\ IsMutable(held)
           /\ IF v # PyNone /\ cell.kind = "ref"
              THEN /\ _keyspaces' = [_keyspaces EXCEPT ![ks][name] = SetObject(t, cell, v)]
                   /\ last' = [last EXCEPT !.op = "mutate"]
              ELSE /\ last' = [last EXCEPT !.op = "mutate", !.rows[n][c] = v]
                   /\ UNCHANGED _keyspaces
    /\ UNCHANGED <<_entries, latest, threads, serial>>

\* Table.delete called on a registered table
TableDelete ==
    \E ks \in DOMAIN _keyspaces : \E name \in DOMAIN _keyspaces[ks] :
    \E t \in {TableAt(ks, name)} :
    \E filters \in Filters(t), if_exists \in BOOLEAN :
    \E r \in {delete(t, filters, if_exists)} :
        /\ _keyspaces' = [_keyspaces EXCEPT ![ks][name] = r.t]
        /\ last' = [NoCall EXCEPT !.op = "delete", !.ks = ks, !.table = name,
                                  !.unfiltered = (DOMAIN filters = {}),
                                  !.flag = if_exists, !.nrows = Len(t._entries),
                                  !.raised = r.raised, !.hits = Len(r.indices)]
        /\ latest' = IF r.raised # "" THEN latest
                     ELSE [latest EXCEPT ![<<ks, name>>] = LatestDelete(@, filters)]
        /\ UNCHANGED <<_entries, threads, serial>>

\* what last keeps of a statement executed on the table t as it was before:
\* for an insert whether its key is held, for the others the rows its
\* where-clause matches
ExecutorCall(op, n, t, statement) ==
    [NoCall EXCEPT
        !.op = op, !.stmt = statement.kind, !.ks = n[1], !.table = n[2],
        !.flag = statement.if_exists \/ statement.if_not_exists,
        !.unfiltered = (statement.where_clauses = <<>>),
        !.nrows = Len(t._entries),
        !.hits = IF statement.kind = "InsertStatement"
                 THEN IF HasHeldKey(t, clauses_to_dict(statement.assignments)) THEN 1 ELSE 0
                 ELSE Len(MatchingIndices(t, clauses_to_dict(statement.where_clauses)))]

\* the table a statement names, as it is; an empty table when none is registered
TableBefore(model, n) ==
    IF Registered(_keyspaces, n) THEN _keyspaces[n[1]][n[2]] ELSE NewTable(model)

\* the history follows the calls made on a table directly: a statement executed
\* on a table ends it
Executed(n) == [x \in DOMAIN latest |-> IF x = n THEN NoLatest ELSE latest[x]]

\* ModelQuerySet._execute of a select, update or delete statement
QuerySetExecute ==
    \E model \in ExecModels :
    \E statement \in SelectStatements(model) \cup UpdateStatements(model)
                     \cup DeleteStatements(model) :
    \E n \in {_get_ks_table_name(model, statement)} :
    \E r \in {ModelQuerySet_execute(_keyspaces, model, statement)} :
        /\ _keyspaces' = r.keyspaces
        /\ last' = [ExecutorCall("ModelQuerySet._execute", n, TableBefore(model, n), statement)
                      EXCEPT !.raised = r.raised]
        /\ latest' = Executed(n)
        /\ UNCHANGED <<_entries, threads, serial>>

\* DMLQuery._execute of an insert, update or delete statement
DMLQueryExecute ==
    \E model \in ExecModels :
    \E statement \in InsertStatements(model) \cup InstanceUpdateStatements(model)
                     \cup DeleteStatements(model) :
    \E n \in {_get_ks_table_name(model, statement)} :
    \E r \in {DMLQuery_execute(_keyspaces, _entries, model, statement)} :
        /\ Registered(r.keyspaces, n) => Len(r.keyspaces[n[1]][n[2]]._entries) <= MaxRows
        /\ _keyspaces' = r.keyspaces
        /\ _entries' = r.entries
        /\ last' = [ExecutorCall("DMLQuery._execute", n, TableBefore(model, n), statement)
                      EXCEPT !.raised = r.raised]
        /\ latest' = Executed(n)
        /\ UNCHANGED <<threads, serial>>

\* ModelQuerySet._execute of a select statement on the table of the model with
\* a timestamp column; last keeps the rows returned
TimestampSelect ==
    \E model \in {"user_created"} :
    \E statement \in SelectStatements(model) :
    \E n \in {_get_ks_table_name(model, statement)} :
    \E t \in {TableAt(n[1], n[2])} :
    \E r \in {Selected(model, find(t, clauses_to_dict(statement.where_clauses),
                                   statement.limit, statement.fields))} :
        /\ last' = [NoCall EXCEPT !.op = "select", !.ks = n[1], !.table = n[2],
                                  !.limit = statement.limit, !.nrows = Len(t._entries),
                                  !.raised = r.raised, !.rows = r.rows,
                                  !.hits = Len(r.rows)]
        /\ UNCHANGED <<_keyspaces, _entries, latest, threads, serial>>

\* the operations of a clause that are none of SUPPORTED_OPERATIONS
UnknownOperations == {"", "increment"}

\* the assignment clauses of a column whose operation is unknown, or that have
\* no _operation at all
OperationClauses(t) ==
    UNION {UNION {{Clause(c, operation, v) : operation \in UnknownOperations}
                  \cup {[field |-> c, value |-> v]} :
                  v \in ValuesOf(t, c)} :
           c \in Assigned(t) \cap _column_names(t)}

\* ModelQuerySet._execute of an update statement with one such clause, on the
\* table of the model with a list column; last keeps the clause's operation
OperationUpdate ==
    \E model \in {"user_skills"} :
    \E t \in {TableAt(ModelKeyspace(model), ColumnFamilyName(model))} :
    \E filters \in ColumnFilters(t), clause \in OperationClauses(t) :
    \E statement \in {Statement("UpdateStatement", TableOf(model), ClausesOf(t, filters),
                                 <<clause>>, <<>>, PyNone, FALSE, FALSE)} :
    \E r \in {ModelQuerySet_execute(_keyspaces, model, statement)} :
        /\ Bounded(r.keyspaces[ModelKeyspace(model)][ColumnFamilyName(model)])
        /\ _keyspaces' = r.keyspaces
        /\ last' = [NoCall EXCEPT !.op = "execute_update",
                                  !.operator = IF "_operation" \in DOMAIN clause
                                               THEN clause._operation ELSE "missing",
                                  !.raised = r.raised,
                                  !.hits = IF MatchingIndices(t, filters) = <<>> THEN 0 ELSE 1]
        /\ UNCHANGED <<_entries, latest, threads, serial>>

\* the keyspaces created: the one of the models, and another
KeyspaceNames == {"fake", "db"}

\* the models synced into the registry
SyncedModels == {"user_height", "user_skills"}

\* create_keyspace called; last keeps whether the name was bound before, and to
\* how many tables
CreateKeyspace ==
    \E name \in KeyspaceNames :
        /\ _keyspaces' = create_keyspace(_keyspaces, name)
        /\ last' = [NoCall EXCEPT !.op = "create_keyspace", !.ks = name,
                                  !.flag = (name \in DOMAIN _keyspaces),
                                  !.hits = IF name \in DOMAIN _keyspaces
                                           THEN Cardinality(DOMAIN _keyspaces[name]) ELSE 0]
        /\ UNCHANGED <<_entries, latest, threads, serial>>

\* sync_table called for a model
SyncTable ==
    \E model \in SyncedModels :
    \E r \in {_sync_table(_keyspaces, model)} :
        /\ _keyspaces' = r.keyspaces
        /\ last' = [NoCall EXCEPT !.op = "sync_table", !.ks = ModelKeyspace(model),
                                  !.table = ColumnFamilyName(model), !.raised = r.raised,
                                  !.hits = IF Registered(_keyspaces, TableOf(model)) THEN 1 ELSE 0]
        /\ UNCHANGED <<_entries, latest, threads, serial>>

\* Table.insert of a row given by its key alone, on a table of the registry
KeyInsert ==
    \E ks \in DOMAIN _keyspaces : \E name \in DOMAIN _keyspaces[ks] :
    \E t \in {TableAt(ks, name)} :
    \E values \in {v \in InsertValues(t) : HasFullKey(t, v) /\ DOMAIN v = _primary_key_names(t)} :
    \E r \in {insert(t, values, FALSE)} :
        /\ Bounded(r.t)
        /\ _keyspaces' = [_keyspaces EXCEPT ![ks][name] = r.t]
        /\ last' = [NoCall EXCEPT !.op = "insert", !.ks = ks, !.table = name,
                                  !.raised = r.raised]
        /\ UNCHANGED <<_entries, latest, threads, serial>>

\* flush called; last keeps the number of rows the tables held before
Flush ==
    /\ _entries' = flush(_entries)
    /\ last' = [NoCall EXCEPT !.op = "flush",
                              !.nrows = IF \E ks \in DOMAIN _keyspaces :
                                           \E name \in DOMAIN _keyspaces[ks] :
                                               _keyspaces[ks][name]._entries # <<>>
                                        THEN 1 ELSE 0]
    /\ UNCHANGED <<_keyspaces, latest, threads, serial>>

(***************************************************************************)
(* Threads inside the methods of Table.  Every method runs its accesses to *)
(* the row list inside `with self._lock:` (connection.py:163, 200, 248,   *)
(* 266); the lock is the field _lock of the table, "" when free, else the  *)
(* thread that holds it.  A thread makes one call; the steps of a call are *)
(* the part before the lock, the acquisition, the statements under the     *)
(* lock (one step for each loop iteration), and the release.               *)
(***************************************************************************)
Threads == {"a", "b"}

\* a thread that has made no call: its position, the table and the arguments
\* of its call, its locals (indices, k), what the call returned or raised, and
\* what the same call returns when run alone at the time of its acquisition
Idle ==
    [pc |-> "idle", n |-> <<"", "">>, op |-> "", filters |-> EmptyMap, values |-> EmptyMap,
     assignments |-> <<>>, flag |-> FALSE, indices |-> <<>>, k |-> 0, rows |-> <<>>,
     raised |-> "", expected |-> [rows |-> <<>>, raised |-> ""]]

\* a lock that excludes no one
CanAcquire_always(keyspaces, n) == TRUE

\* one lock for all the tables
CanAcquire_global(keyspaces, n) ==
    \A ks \in DOMAIN keyspaces : \A name \in DOMAIN keyspaces[ks] :
        keyspaces[ks][name]._lock = ""

\* Lock.__enter__ of `with self._lock:` returns when the lock of the table the
\* method was called on is free
CanAcquire(keyspaces, n) == keyspaces[n[1]][n[2]]._lock = ""

\* the calls threads make: inserts of a row given by its key, or by nothing,
\* and finds, plain updates of a scalar column and deletes by no filter or by
\* one column
ThreadCalls(t) ==
    LET call(op, filters, values, assigned_values, flag) ==
            [op |-> op, filters |-> filters, values |-> values,
             assignments |-> assigned_values, flag |-> flag]
        keys == {v \in InsertValues(t) : HasFullKey(t, v) /\ DOMAIN v = _primary_key_names(t)}
        filtered == {f \in ColumnFilters(t) : Cardinality(DOMAIN f) <= 1}
        assigned == {a \in Assignments(t) : a[1] \in ScalarColumnNames(t) /\ a[2] = DEFAULT_OPERATOR}
    IN  {call("insert", EmptyMap, v, <<>>, flag) : v \in keys \cup {EmptyMap}, flag \in BOOLEAN}
        \cup {call("find", f, EmptyMap, <<>>, FALSE) : f \in filtered}
        \cup {call("update", f, EmptyMap, <<a>>, FALSE) : f \in filtered, a \in assigned}
        \cup {call("delete", f, EmptyMap, <<>>, FALSE) : f \in filtered}

\* a call run alone on the table t: the table it leaves, the rows it returns
\* and the exception it raises
Run(t, call) ==
    CASE call.op = "insert" ->
             The({[t |-> r.t, rows |-> <<>>, raised |-> r.raised] :
                  r \in {insert(t, call.values, call.flag)}})
      [] call.op = "find" ->
             The({[t |-> t, rows |-> r.rows, raised |-> r.raised] :
                  r \in {find(t, call.filters, PyNone, AllFields(t))}})
      [] call.op = "update" ->
             The({[t |-> r.t, rows |-> <<>>, raised |-> r.raised] :
                  r \in {update(t, call.filters, call.assignments, call.flag)}})
      [] OTHER ->
             The({[t |-> r.t, rows |-> <<>>, raised |-> r.raised] :
                  r \in {delete(t, call.filters, call.flag)}})

\* the first statements of Table.insert under the lock (connection.py:201-206):
\* the index _find_by_pk returns for the key of the entry, 0 for None
insert_find(t, values) ==
    The({_find_by_pk(t, PksOf(t, built)) :
         built \in {BuildEntry(t, values, 1, t.heap, EmptyMap)}})

\* the last statements of Table.insert under the lock (connection.py:207-213),
\* with the index found before; an index beyond the list is an IndexError
insert_at(t, values, if_not_exists, entry_idx) ==
    IF entry_idx # 0 /\ if_not_exists THEN [t |-> t, raised |-> "LWTException"]
    ELSE IF entry_idx > Len(t._entries) THEN [t |-> t, raised |-> "IndexError"]
    ELSE The({[t |-> Canon([t EXCEPT !.heap = built.heap,
                                    !._entries = IF entry_idx # 0
                                                 THEN [@ EXCEPT ![entry_idx] = built.entry]
                                                 ELSE Append(@, built.entry)]),
               raised |-> ""] :
              built \in {BuildEntry(t, values, 1, t.heap, EmptyMap)}})

\* the registry with the table n replaced
WithTable(n, t) == [_keyspaces EXCEPT ![n[1]][n[2]] = t]

\* a thread calls a method of a table: the part of the method before the lock,
\* which for insert builds the entry and raises when the key is incomplete
\* (connection.py:189-198)
ThreadCall(th) ==
    /\ threads[th].pc = "idle"
    /\ \E ks \in DOMAIN _keyspaces : \E name \in DOMAIN _keyspaces[ks] :
       \E t \in {TableAt(ks, name)} : \E call \in ThreadCalls(t) :
       \E keyless \in {call.op = "insert" /\ ~HasFullKey(t, call.values)} :
           threads' = [threads EXCEPT ![th] =
                          [Idle EXCEPT !.n = <<ks, name>>, !.op = call.op,
                                       !.filters = call.filters, !.values = call.values,
                                       !.assignments = call.assignments, !.flag = call.flag,
                                       !.pc = IF keyless THEN "done" ELSE "acquire",
                                       !.raised = IF keyless THEN "CQLEngineException" ELSE ""]]
    /\ UNCHANGED <<_keyspaces, _entries, last, latest, serial>>

\* `with self._lock:` entered: the thread holds the lock of its table; serial
\* runs the whole call at this moment
ThreadAcquire(th) ==
    /\ threads[th].pc = "acquire"
    /\ CanAcquire(_keyspaces, threads[th].n)
    /\ \E me \in {threads[th]} : \E run \in {Run(serial[me.n], me)} :
           /\ _keyspaces' = WithTable(me.n, [TableAt(me.n[1], me.n[2]) EXCEPT !._lock = th])
           /\ serial' = [serial EXCEPT ![me.n] = run.t]
           /\ threads' = [threads EXCEPT ![th].pc = "locked",
                                         ![th].expected = [rows |-> run.rows,
                                                           raised |-> run.raised]]
    /\ UNCHANGED <<_entries, last, latest>>

\* Table.insert under the lock: _find_by_pk, then the replacement or the append
ThreadInsert(th) ==
    /\ threads[th].op = "insert"
    /\ \E me \in {threads[th]} : \E t \in {TableAt(me.n[1], me.n[2])} :
        \/ /\ me.pc = "locked"
           /\ threads' = [threads EXCEPT ![th].pc = "write",
                                         ![th].k = insert_find(t, me.values)]
           /\ UNCHANGED _keyspaces
        \/ /\ me.pc = "write"
           /\ \E r \in {insert_at(t, me.values, me.flag, me.k)} :
                  /\ _keyspaces' = WithTable(me.n, r.t)
                  /\ threads' = [threads EXCEPT ![th].pc = "release",
                                                ![th].raised = r.raised]
    /\ UNCHANGED <<_entries, last, latest, serial>>

\* Table.find under the lock: the list of the copies of the matching rows
ThreadFind(th) ==
    /\ threads[th].op = "find" /\ threads[th].pc = "locked"
    /\ \E me \in {threads[th]} : \E t \in {TableAt(me.n[1], me.n[2])} :
       \E r \in {find(t, me.filters, PyNone, AllFields(t))} :
           threads' = [threads EXCEPT ![th].pc = "release", ![th].rows = r.rows,
                                         ![th].raised = r.raised]
    /\ UNCHANGED <<_keyspaces, _entries, last, latest, serial>>

\* Table.update under the lock: the matching indices and the conflict, then the
\* assignments to one matching row for each iteration of `for idx in indices`
ThreadUpdate(th) ==
    /\ threads[th].op = "update"
    /\ \E me \in {threads[th]} : \E t \in {TableAt(me.n[1], me.n[2])} :
        \/ /\ me.pc = "locked"
           /\ \E indices \in {_get_indices_by_kwargs(t, PyNone, me.filters)} :
                  threads' = [threads EXCEPT
                                 ![th].indices = indices, ![th].k = 1,
                                 ![th].pc = IF indices = <<>> THEN "release" ELSE "loop",
                                 ![th].raised = IF indices = <<>> /\ me.flag
                                                THEN "LWTException" ELSE ""]
           /\ UNCHANGED _keyspaces
        \/ /\ me.pc = "loop"
           /\ \E r \in {IF me.indices[me.k] > Len(t._entries)
                        THEN [t |-> t, raised |-> "IndexError"]
                        ELSE UpdateRows(t, <<me.indices[me.k]>>, me.assignments, FALSE)} :
                  /\ _keyspaces' = WithTable(me.n, r.t)
                  /\ threads' = [threads EXCEPT
                                    ![th].k = me.k + 1, ![th].raised = r.raised,
                                    ![th].pc = IF r.raised # "" \/ me.k = Len(me.indices)
                                               THEN "release" ELSE "loop"]
    /\ UNCHANGED <<_entries, last, latest, serial>>

\* Table.delete under the lock: the row list replaced when there is no filter,
\* else the matching indices and the conflict, then one `del` for each
\* iteration of `for index in sorted(indices, reverse=True)`
ThreadDelete(th) ==
    /\ threads[th].op = "delete"
    /\ \E me \in {threads[th]} : \E t \in {TableAt(me.n[1], me.n[2])} :
        \/ /\ me.pc = "locked" /\ DOMAIN me.filters = {}
           /\ _keyspaces' = WithTable(me.n, Canon([t EXCEPT !._entries = <<>>]))
           /\ threads' = [threads EXCEPT ![th].pc = "release"]
        \/ /\ me.pc = "locked" /\ DOMAIN me.filters # {}
           /\ \E indices \in {_get_indices_by_kwargs(t, PyNone, me.filters)} :
                  threads' = [threads EXCEPT
                                 ![th].indices = indices, ![th].k = Len(indices),
                                 ![th].pc = IF indices = <<>> THEN "release" ELSE "loop",
                                 ![th].raised = IF indices = <<>> /\ me.flag
                                                THEN "LWTException" ELSE ""]
           /\ UNCHANGED _keyspaces
        \/ /\ me.pc = "loop"
           /\ \E r \in {IF me.indices[me.k] > Len(t._entries)
                        THEN [t |-> t, raised |-> "IndexError"]
                        ELSE DeleteRows(t, <<me.indices[me.k]>>, FALSE)} :
                  /\ _keyspaces' = WithTable(me.n, r.t)
                  /\ threads' = [threads EXCEPT
                                    ![th].k = me.k - 1, ![th].raised = r.raised,
                                    ![th].pc = IF r.raised # "" \/ me.k = 1
                                               THEN "release" ELSE "loop"]
    /\ UNCHANGED <<_entries, last, latest, serial>>

\* a lock that is released only when the block ends without an exception
LockAfter_leak(th, raised) == IF raised # "" THEN th ELSE ""

\* Lock.__exit__ of `with self._lock:` releases the lock whether the block
\* ended or raised: the holder of the lock afterwards
LockAfter(th, raised) == ""

\* `with self._lock:` left, by the end of the block or by an exception: the
\* lock of the table is free and the call returns
ThreadRelease(th) ==
    /\ threads[th].pc = "release"
    /\ \E me \in {threads[th]} :
           _keyspaces' = WithTable(me.n, [TableAt(me.n[1], me.n[2]) EXCEPT
                                             !._lock = LockAfter(th, me.raised)])
    /\ threads' = [threads EXCEPT ![th].pc = "done"]
    /\ UNCHANGED <<_entries, last, latest, serial>>

\* the calls of threads that call again and again, all about the row of key 1:
\* its insert (or an insert of nothing), the find of all the rows, its update
\* and its delete, the conditional forms (if_not_exists, if_exists) included
Invocations(t) ==
    LET call(op, filters, values, assigned_values, flag) ==
            [op |-> op, filters |-> filters, values |-> values,
             assignments |-> assigned_values, flag |-> flag]
        one == [pk \in _primary_key_names(t) |-> PyInt(1)]
        assigned == {a \in Assignments(t) : /\ a[1] \in ScalarColumnNames(t)
                                            /\ a[2] = DEFAULT_OPERATOR
                                            /\ a[3] = PyInt(1)}
    IN  {call("insert", EmptyMap, v, <<>>, flag) : v \in {one, EmptyMap}, flag \in BOOLEAN}
        \cup {call("find", EmptyMap, EmptyMap, <<>>, FALSE)}
        \cup {call("update", one, EmptyMap, <<a>>, flag) : a \in assigned, flag \in BOOLEAN}
        \cup {call("delete", one, EmptyMap, <<>>, flag) : flag \in BOOLEAN}

\* a thread calls a method of a table, conditional or not: the part of the
\* method before the lock (connection.py:189-198, 244-245, 264)
ThreadInvoke(th) ==
    /\ threads[th].pc = "idle"
    /\ \E ks \in DOMAIN _keyspaces : \E name \in DOMAIN _keyspaces[ks] :
       \E t \in {TableAt(ks, name)} : \E call \in Invocations(t) :
       \E keyless \in {call.op = "insert" /\ ~HasFullKey(t, call.values)} :
           threads' = [threads EXCEPT ![th] =
                          [Idle EXCEPT !.n = <<ks, name>>, !.op = call.op,
                                       !.filters = call.filters, !.values = call.values,
                                       !.assignments = call.assignments, !.flag = call.flag,
                                       !.pc = IF keyless THEN "done" ELSE "acquire",
                                       !.raised = IF keyless THEN "CQLEngineException" ELSE ""]]
    /\ UNCHANGED <<_keyspaces, _entries, last, latest, serial>>

\* the caller goes on after the call returned or raised, and may call again
ThreadReturn(th) ==
    /\ threads[th].pc = "done"
    /\ threads' = [threads EXCEPT ![th] = Idle]
    /\ UNCHANGED <<_keyspaces, _entries, last, latest, serial>>

\* a thread executes, through DMLQuery._execute, a delete statement with field
\* targets: after the lookup of the table (connection.py:660-662) lookup_items
\* scans the rows the module keeps under the statement's table
\* (connection.py:679, 494-502).  No lock is taken on this path.
ThreadLookupItems(th) ==
    /\ threads[th].pc = "idle"
    /\ \E model \in {"user_height"} : \E statement \in FieldDeletes(model) :
       \E n \in {_get_ks_table_name(model, statement)} :
           /\ Registered(_keyspaces, n)
           /\ threads' = [threads EXCEPT ![th] =
                  [Idle EXCEPT !.n = n, !.op = "delete_fields", !.pc = "fields",
                               !.filters = clauses_to_dict(statement.where_clauses),
                               !.assignments = statement.fields,
                               !.indices = lookup_items(_entries, statement.table,
                                                        statement.where_clauses)]]
    /\ UNCHANGED <<_keyspaces, _entries, last, latest, serial>>

\* the loop that sets the statement's fields in the rows found
\* (connection.py:680-684), after which _execute returns
ThreadSetFields(th) ==
    /\ threads[th].pc = "fields"
    /\ \E me \in {threads[th]} :
           _entries' = SetFields(_entries, me.n, me.indices, me.assignments)
    /\ threads' = [threads EXCEPT ![th].pc = "done"]
    /\ UNCHANGED <<_keyspaces, last, latest, serial>>

(***************************************************************************)
(* Specifications.                                                         *)
(***************************************************************************)
\* the module as imported: no keyspace, no entries (connection.py:75-76, 308)
Init ==
    /\ _keyspaces = EmptyMap
    /\ _entries = EmptyMap
    /\ last = NoCall
    /\ latest = EmptyMap
    /\ threads = EmptyMap
    /\ serial = EmptyMap

\* keyspace 'fake' created and one model synced into it
InitTable(model) ==
    /\ _keyspaces = [ks \in {ModelKeyspace(model)} |->
                        [name \in {ColumnFamilyName(model)} |-> NewTable(model)]]
    /\ _entries = EmptyMap
    /\ last = NoCall
    /\ latest = [x \in {<<ModelKeyspace(model), ColumnFamilyName(model)>>} |->
                    [valid |-> TRUE, rows |-> EmptyMap]]
    /\ threads = EmptyMap
    /\ serial = EmptyMap

\* the calls of Table.insert alone, on a table with a composite key, a single
\* key and no key
SpecInsert ==
    (\E model \in {"user_key", "user_height", "user_log"} : InitTable(model))
    /\ [][TableInsert]_vars

\* the calls of Table.insert alone, on a table with a column of each kind
SpecInsertKinds ==
    (\E model \in ModelNames \ {"user_key", "user_log"} : InitTable(model))
    /\ [][TableInsert]_vars

\* insert and find
NextFind == TableInsert \/ TableFind

SpecFind == InitTable("user_height") /\ [][NextFind]_vars

\* insert, find and delete
NextDelete == TableInsert \/ TableFind \/ TableDelete

SpecDelete == InitTable("user_height") /\ [][NextDelete]_vars

\* insert and update, on a table with a key and on one without
NextUpdate == TableInsert \/ TableUpdate

SpecUpdate ==
    (\E model \in {"user_height", "user_log"} : InitTable(model)) /\ [][NextUpdate]_vars

\* insert, update and delete on the table of a model whose columns are all
\* primary keys, so that the updates assign to a key column
NextKeys == TableInsert \/ TableUpdate \/ TableDelete

SpecKeys == InitTable("user_key") /\ [][NextKeys]_vars

\* inserts, and updates that name a column the table does not have
NextMixed == TableInsert \/ MixedUpdate

SpecMixed == InitTable("user_height") /\ [][NextMixed]_vars

\* statements executed through the two executors
NextExec == QuerySetExecute \/ DMLQueryExecute

SpecExec == InitTable("user_height") /\ [][NextExec]_vars

\* rows with a timestamp inserted and read back through the executor
NextTimestamps == TableInsert \/ TimestampSelect

SpecTimestamps == InitTable("user_created") /\ [][NextTimestamps]_vars

\* update statements whose clauses carry an unknown operation, among inserts
\* and updates of the list column
NextOperations == ContainerInsert \/ ContainerUpdate \/ OperationUpdate

SpecOperations == InitTable("user_skills") /\ [][NextOperations]_vars

\* the collection operators of update, on the table of a model with a list, a
\* set or a map column
NextContainers == ContainerInsert \/ ContainerUpdate

SpecList == InitTable("user_skills") /\ [][NextContainers]_vars

SpecSet == InitTable("user_assignments") /\ [][NextContainers]_vars

SpecMap == InitTable("user_matrix") /\ [][NextContainers]_vars

\* the registry: keyspaces created, models synced, rows inserted, flush
NextRegistry == CreateKeyspace \/ SyncTable \/ KeyInsert \/ Flush

SpecRegistry == Init /\ [][NextRegistry]_vars

\* statements executed for models whose tables were never added, in keyspaces
\* created or not
NextLookup == CreateKeyspace \/ QuerySetExecute \/ DMLQueryExecute

SpecLookup == Init /\ [][NextLookup]_vars

\* a table that holds the rows of the keys 1..rows, inserted in this order
RECURSIVE Populated(_, _)
Populated(model, rows) ==
    IF rows = 0 THEN NewTable(model)
    ELSE The({insert(t, [pk \in _primary_key_names(t) |-> PyInt(rows)], FALSE).t :
              t \in {Populated(model, rows - 1)}})

\* keyspace 'fake' created, the models synced into it and rows inserted; no
\* thread has made its call; latest keeps the rows as they are now
InitThreads(models) ==
    /\ \E rows \in 0..MaxRows :
           /\ rows <= MaxVal
           /\ _keyspaces = [ks \in {"fake"} |-> [name \in models |-> Populated(name, rows)]]
    /\ _entries = EmptyMap
    /\ last = NoCall
    /\ latest = [x \in {<<"fake", name>> : name \in models} |->
                    [valid |-> TRUE,
                     rows |-> [i \in DOMAIN _keyspaces["fake"][x[2]]._entries |->
                                  Rows(_keyspaces["fake"][x[2]])[i]]]]
    /\ threads = [th \in Threads |-> Idle]
    /\ serial = [x \in {<<"fake", name>> : name \in models} |-> _keyspaces["fake"][x[2]]]

\* the steps of the threads
NextThreads ==
    \E th \in Threads :
        \/ ThreadCall(th)
        \/ ThreadAcquire(th)
        \/ ThreadInsert(th)
        \/ ThreadFind(th)
        \/ ThreadUpdate(th)
        \/ ThreadDelete(th)
        \/ ThreadRelease(th)

\* two threads on one table
SpecThreads == InitThreads({"user_height"}) /\ [][NextThreads]_vars

\* two threads on two tables
SpecTwoTables == InitThreads({"user_height", "user_skills"}) /\ [][NextThreads]_vars

\* the steps of a thread from the wait for the lock to its release
ThreadStep(th) ==
    \/ ThreadAcquire(th)
    \/ ThreadInsert(th)
    \/ ThreadFind(th)
    \/ ThreadUpdate(th)
    \/ ThreadDelete(th)
    \/ ThreadRelease(th)

\* the steps of a thread inside the lock, the release included
ThreadInside(th) ==
    \/ ThreadInsert(th)
    \/ ThreadFind(th)
    \/ ThreadUpdate(th)
    \/ ThreadDelete(th)
    \/ ThreadRelease(th)

\* threads that call the methods of one table again and again
NextCalls == \E th \in Threads : ThreadInvoke(th) \/ ThreadStep(th) \/ ThreadReturn(th)

SpecCalls == InitThreads({"user_height"}) /\ [][NextCalls]_vars

\* the same under a scheduler that lets every running thread take its next
\* step, and a lock that is fair: a thread that waits for a lock that is free
\* again and again acquires it
FairCalls ==
    /\ SpecCalls
    /\ \A th \in Threads : WF_vars(ThreadInside(th)) /\ SF_vars(ThreadAcquire(th))

\* calls of the methods of a table, and delete statements with field targets,
\* made by threads
NextFields ==
    \/ NextThreads
    \/ \E th \in Threads : ThreadLookupItems(th) \/ ThreadSetFields(th)

SpecFields == InitThreads({"user_height"}) /\ [][NextFields]_vars

\* the rows find returns, in the hands of the caller
NextIsolation == ContainerInsert \/ ContainerFind \/ CallerMutates

SpecIsolation ==
    /\ \E model \in {"user_skills", "user_assignments", "user_matrix"} : InitTable(model)
    /\ [][NextIsolation]_vars

(***************************************************************************)
(* Properties of Table.insert.                                             *)
(***************************************************************************)
RegisteredTables ==
    UNION {{_keyspaces[ks][name] : name \in DOMAIN _keyspaces[ks]} : ks \in DOMAIN _keyspaces}

\* the tables that declare at least one primary-key column
KeyedTables == {t \in RegisteredTables : _primary_key_names(t) # {}}

\* C1: after any sequence of Table.insert calls on a table that declares a
\* primary key, no two rows of the table hold the same primary-key tuple.
C1_PrimaryKeyUnique ==
    \A t \in KeyedTables : \A i, j \in DOMAIN t._entries :
        KeyOf(t, Rows(t)[i]) = KeyOf(t, Rows(t)[j]) => i = j

\* an insert has replaced a row of a table that holds two rows
C1_Witness ==
    /\ last.op = "insert" /\ last.raised = "" /\ last.hits = 1 /\ last.nrows = 2
    /\ \E t \in KeyedTables : Len(t._entries) = 2

\* C2: Table.insert with if_not_exists set, for a primary-key tuple the table
\* already holds, raises the lightweight-transaction conflict and leaves the
\* table as it was.
C2_InsertIfNotExistsConflict ==
    \A t \in KeyedTables : \A values \in InsertValues(t) :
        HasHeldKey(t, values) =>
            LET r == insert(t, values, TRUE)
            IN  r.raised = "LWTException" /\ r.t = t

\* an if_not_exists insert found its key and raised the conflict
C2_Witness ==
    /\ last.op = "insert" /\ last.flag /\ last.hits = 1
    /\ last.raised = "LWTException"

\* C3: Table.insert without if_not_exists, for a primary-key tuple the table
\* already holds, keeps the row count and leaves under that key exactly the
\* inserted values, every omitted column at its default.
C3_InsertReplacesWholesale ==
    \A t \in KeyedTables : \A values \in InsertValues(t) :
        HasHeldKey(t, values) =>
            LET r == insert(t, values, FALSE)
                expected == EntryValue(t, values)
            IN  /\ r.raised = ""
                /\ Len(r.t._entries) = Len(t._entries)
                /\ RowsWithKey(r.t, values) = RowsWithKey(t, values)
                /\ \A i \in RowsWithKey(r.t, values) : Rows(r.t)[i] = expected

\* an insert that omits a column has replaced the row of its key
C3_Witness ==
    /\ last.op = "insert" /\ ~last.flag /\ last.partial
    /\ last.hits = 1 /\ last.raised = ""

\* C7: Table.insert whose values leave a primary-key column out or give it
\* None raises the missing-primary-key error and leaves the table as it was,
\* although no primary-key column is marked required.
C7_InsertMissingKey ==
    \A t \in KeyedTables : \A values \in InsertValues(t), if_not_exists \in BOOLEAN :
        ~HasFullKey(t, values) =>
            LET r == insert(t, values, if_not_exists)
            IN  r.raised = "CQLEngineException" /\ r.t = t

\* an insert into a table with rows was refused for a missing key, and no
\* primary-key column of that table is marked required
C7_Witness ==
    /\ last.op = "insert" /\ last.raised = "CQLEngineException" /\ last.nrows > 0
    /\ \E t \in KeyedTables :
          \A i \in DOMAIN _columns(t) :
              _columns(t)[i].primary_key => ~_columns(t)[i].required

(***************************************************************************)
(* Properties of Table.find, Table.delete and Table.update.                *)
(***************************************************************************)
\* the first n elements of a sequence
FirstN(seq, n) == SubSeq(seq, 1, IF n < Len(seq) THEN n ELSE Len(seq))

\* a row as find returns it: by value, under the model's field names
Projected(t, row) ==
    LET cols == _columns(t)
    IN  [n \in {cols[i].name : i \in DOMAIN cols} |->
            row[cols[CHOOSE i \in DOMAIN cols : cols[i].name = n].db_field_name]]

\* C9: Table.find with a non-null limit L returns, for any filters, the empty
\* filters included, the first L matching rows in insertion order and so at
\* most L rows; with limit None it returns every matching row.
C9_FindLimit ==
    \A t \in RegisteredTables : \A filters \in Filters(t), limit \in Limits :
        LET r == find(t, filters, limit, AllFields(t))
            m == MatchingIndices(t, filters)
            expected == IF limit = PyNone THEN m ELSE FirstN(m, limit.i)
        IN  /\ r.raised = ""
            /\ r.rows = [n \in DOMAIN expected |-> Projected(t, Rows(t)[expected[n]])]

\* C5: Table.delete with if_exists set and filters that are not empty raises
\* the conflict and leaves the table as it was when no row matches; otherwise
\* it removes every matching row and raises nothing, after which the same
\* delete raises the conflict.
C5_DeleteIfExists ==
    \A t \in RegisteredTables : \A filters \in Filters(t) :
        DOMAIN filters # {} =>
            LET r == delete(t, filters, TRUE)
                m == MatchingIndices(t, filters)
            IN  IF m = <<>>
                THEN r.raised = "LWTException" /\ r.t = t
                ELSE /\ r.raised = ""
                     /\ Rows(r.t) = SelectSeq(Rows(t), LAMBDA row : ~RowMatches(row, filters))
                     /\ delete(r.t, filters, TRUE).raised = "LWTException"

\* a filtered if_exists delete removed some rows of the table and left others
C5_Witness ==
    /\ last.op = "delete" /\ last.flag /\ ~last.unfiltered
    /\ last.hits >= 1 /\ last.nrows > last.hits /\ last.raised = ""

\* C8: Table.delete with empty filters removes every row and raises nothing,
\* whatever if_exists is and even when the table is already empty.
C8_DeleteUnfiltered ==
    \A t \in RegisteredTables : \A if_exists \in BOOLEAN :
        LET r == delete(t, EmptyMap, if_exists)
        IN  r.raised = "" /\ r.t._entries = <<>>

\* an unfiltered if_exists delete ran on an empty table and raised nothing
C8_Witness ==
    /\ last.op = "delete" /\ last.unfiltered /\ last.flag
    /\ last.nrows = 0 /\ last.raised = ""

\* the filters that name the whole primary key of the table
KeyFilters(t) ==
    LET vals == [c \in _primary_key_names(t) |-> KeyValues]
    IN  Dicts(_primary_key_names(t), vals)

\* C10: after any sequence of inserts and deletes, Table.find on a full
\* primary key returns exactly one row, the values of the latest successful
\* insert of that key, when the latest successful insert or delete that
\* affected the key was an insert, and no row otherwise.
C10_FindSeesLatestInsert ==
    \A ks \in DOMAIN _keyspaces : \A name \in DOMAIN _keyspaces[ks] :
        LET t == TableAt(ks, name)
            h == latest[<<ks, name>>]
        IN  (h.valid /\ _primary_key_names(t) # {}) =>
                \A k \in KeyFilters(t) :
                    find(t, k, PyNone, AllFields(t)).rows =
                        IF k \in DOMAIN h.rows THEN <<Projected(t, h.rows[k])>> ELSE <<>>

\* a delete has removed one of two keys, so that one key's latest operation is
\* a delete and the other's an insert
C10_Witness ==
    /\ last.op = "delete" /\ last.raised = "" /\ last.hits = 1 /\ last.nrows = 2
    /\ \E x \in DOMAIN latest : latest[x].valid /\ Cardinality(DOMAIN latest[x].rows) = 1

\* the row after the assignments from position k on, each replacing the value
\* of the column it names
RECURSIVE AfterAssignments(_, _, _)
AfterAssignments(row, values, k) ==
    IF k > Len(values) THEN row
    ELSE AfterAssignments(IF values[k][1] \in DOMAIN row
                          THEN [row EXCEPT ![values[k][1]] = values[k][3]]
                          ELSE row,
                          values, k + 1)

\* the assignment lists that only assign
PlainAssignmentLists(t) ==
    {values \in AssignmentLists(t) : \A k \in DOMAIN values : values[k][2] = DEFAULT_OPERATOR}

\* C4: Table.update with if_exists set raises the conflict and leaves the table
\* as it was when no row matches the filters; when rows match, every matching
\* row receives all the assignments, the other rows stay, and nothing is
\* raised.  Empty filters match every row, so they conflict exactly on an
\* empty table.
C4_UpdateIfExists ==
    \A t \in RegisteredTables :
    \A filters \in Filters(t), values \in PlainAssignmentLists(t) :
        LET r == update(t, filters, values, TRUE)
            m == MatchingIndices(t, filters)
            hit == {m[n] : n \in DOMAIN m}
        IN  IF m = <<>>
            THEN r.raised = "LWTException" /\ r.t = t
            ELSE /\ r.raised = ""
                 /\ Rows(r.t) = [i \in DOMAIN t._entries |->
                                    IF i \in hit
                                    THEN AfterAssignments(Rows(t)[i], values, 1)
                                    ELSE Rows(t)[i]]

\* an if_exists update matched two rows or more and raised nothing
C4_Witness ==
    /\ last.op = "update" /\ last.flag /\ last.hits >= 2 /\ last.raised = ""

(***************************************************************************)
(* Properties of the executors.                                            *)
(***************************************************************************)
\* C6: a statement executed through ModelQuerySet._execute or through
\* DMLQuery._execute reports the lightweight-transaction conflict when it is
\* an update or delete with if_exists set whose where-clause matches no row,
\* and when it is an insert with if_not_exists set whose key the table holds.
C6_ExecutorForwardsFlag ==
    (/\ last.op \in {"ModelQuerySet._execute", "DMLQuery._execute"}
     /\ Registered(_keyspaces, <<last.ks, last.table>>)
     /\ last.flag
     /\ \/ last.stmt \in {"UpdateStatement", "DeleteStatement"} /\ last.hits = 0
        \/ last.stmt = "InsertStatement" /\ last.hits = 1)
    => last.raised = "LWTException"

(***************************************************************************)
(* Properties of the collection operators.                                 *)
(***************************************************************************)
\* the columns of a table declared with the given kind
ColumnsOfType(t, type) == {c \in _column_names(t) : DbType(t, c) = type}

\* the rows the filters match all hold a container of the kind under column c
Holds(t, filters, c, kind) ==
    LET m == MatchingIndices(t, filters)
    IN  m # <<>> /\ \A n \in DOMAIN m : Rows(t)[m[n]][c].kind = kind

\* the elements of the values the collection operators are called with: one
\* more than the rows are inserted with, as in the acceptance test
OperatorElements == 1..(MaxPayload + 1)

\* the lists passed to append and prepend: of up to two elements
ListArgs ==
    {PyList(<<>>)} \cup {PyList(<<x>>) : x \in OperatorElements}
    \cup {PyList(<<x, y>>) : x \in OperatorElements, y \in OperatorElements}

\* the rows after Table.update applied one operator to column c
RowsAfter(t, filters, c, operator, value) ==
    Rows(update(t, filters, <<<<c, operator, value>>>>, FALSE).t)

\* C11: on a list column, update with append sets the stored list of every
\* matching row to the stored list followed by the value, and update with
\* prepend sets it to the value followed by the stored list, element order
\* preserved; so an append of [x, y] on [] followed by a prepend of [w] leaves
\* [w, x, y], and two appends leave their elements at the end in call order.
C11_ListAppendPrepend ==
    \A t \in RegisteredTables : \A c \in ColumnsOfType(t, "List") :
    \A filters \in ColumnFilters(t), value \in ListArgs :
        Holds(t, filters, c, "list") =>
            LET m == MatchingIndices(t, filters)
                appended == RowsAfter(t, filters, c, "append", value)
                prepended == RowsAfter(t, filters, c, "prepend", value)
            IN  \A n \in DOMAIN m :
                    /\ appended[m[n]][c] = PyList(Rows(t)[m[n]][c].l \o value.l)
                    /\ prepended[m[n]][c] = PyList(value.l \o Rows(t)[m[n]][c].l)

\* C12: on a set column, update with add sets the stored set of every matching
\* row to its union with the value, and update with remove sets it to the
\* stored set without the elements of the value; adding the same elements again
\* changes nothing, and removing elements the set does not hold changes nothing.
C12_SetAddRemove ==
    \A t \in RegisteredTables : \A c \in ColumnsOfType(t, "Set") :
    \A filters \in ColumnFilters(t), value \in {PySet(s) : s \in SUBSET OperatorElements} :
        Holds(t, filters, c, "set") =>
            LET m == MatchingIndices(t, filters)
                added == update(t, filters, <<<<c, "add", value>>>>, FALSE)
                removed == update(t, filters, <<<<c, "remove", value>>>>, FALSE)
            IN  /\ added.raised = "" /\ removed.raised = ""
                /\ \A n \in DOMAIN m :
                    /\ Rows(added.t)[m[n]][c] = PySet(Rows(t)[m[n]][c].s \cup value.s)
                    /\ Rows(removed.t)[m[n]][c] = PySet(Rows(t)[m[n]][c].s \ value.s)
                /\ RowsAfter(added.t, filters, c, "add", value) = Rows(added.t)
                /\ (\A n \in DOMAIN m : Rows(t)[m[n]][c].s \cap value.s = {})
                       => Rows(removed.t) = Rows(t)

\* an update has removed elements from the sets of the rows it matched, in a
\* table of two rows that hold sets
C12_Witness ==
    /\ last.op = "update" /\ last.operator = "remove" /\ last.hits >= 1 /\ last.raised = ""
    /\ \A t \in RegisteredTables :
           /\ Len(t._entries) >= 2
           /\ \A i \in DOMAIN t._entries : Rows(t)[i]["assignments"].kind = "set"

\* the maps passed to update on a map column: any keys, under one value
MapArgs == UNION {[D -> {e}] : D \in SUBSET OperatorElements, e \in OperatorElements}

StoredRows ==
    [ks \in DOMAIN _keyspaces |-> [name \in DOMAIN _keyspaces[ks] |-> Rows(_keyspaces[ks][name])]]

\* C14: Table.find leaves the rows of the table as they were, and when the
\* caller afterwards changes a row it was returned, or a container inside it,
\* the rows the table stores stay as they were, and so does what a find
\* returns.
C14_FindIsolated ==
    [][last'.op \in {"find", "mutate"} =>
          /\ StoredRows' = StoredRows
          /\ \A ks \in DOMAIN _keyspaces : \A name \in DOMAIN _keyspaces[ks] :
             \A filters \in ColumnFilters(_keyspaces[ks][name]) :
                 find(_keyspaces[ks][name]', filters, PyNone, AllFields(_keyspaces[ks][name]))
                 = find(_keyspaces[ks][name], filters, PyNone, AllFields(_keyspaces[ks][name]))]_vars

\* the caller has changed a container of a row it was returned, which now
\* differs from the row the table stores under the same key
C14_Witness ==
    /\ last.op = "mutate"
    /\ \E t \in RegisteredTables : \E n \in DOMAIN last.rows : \E i \in DOMAIN t._entries :
           /\ last.rows[n]["username"] = Rows(t)[i]["username"]
           /\ \E c \in DOMAIN last.rows[n] : IsMutable(last.rows[n][c]) /\ last.rows[n][c] # Rows(t)[i][c]

(***************************************************************************)
(* Properties of the registry.                                             *)
(***************************************************************************)
\* C15: after flush() every table of every registered keyspace holds no row
\* (the keyspaces, the tables and their schemas stay registered).
C15_FlushEmptiesTables ==
    last.op = "flush" => \A t \in RegisteredTables : t._entries = <<>>

\* C16: create_keyspace(name) leaves name bound to a keyspace without tables,
\* whatever it was bound to before, and leaves every other keyspace, with its
\* tables and their rows, as it was.
C16_CreateKeyspaceResets ==
    \A name \in KeyspaceNames :
        LET created == create_keyspace(_keyspaces, name)
        IN  /\ DOMAIN created = DOMAIN _keyspaces \cup {name}
            /\ DOMAIN created[name] = {}
            /\ \A k \in DOMAIN _keyspaces \ {name} : created[k] = _keyspaces[k]
            /\ create_keyspace(created, name) = created

\* create_keyspace was called for a name bound to a keyspace with tables, while
\* another keyspace was registered
C16_Witness ==
    /\ last.op = "create_keyspace" /\ last.flag /\ last.hits >= 1
    /\ _keyspaces[last.ks] = EmptyMap
    /\ DOMAIN _keyspaces # {last.ks}

\* C17: looking up a keyspace that was never created, or a table that was
\* never added to its keyspace, fails with KeyError, and a select, insert,
\* update or delete statement executed for such a keyspace or table raises it
\* and leaves the registry, with the tables of every keyspace, as it was.
C17_LookupCreatesNothing ==
    /\ \A ks \in KeyspaceNames :
           /\ ks \notin DOMAIN _keyspaces => get_keyspace(_keyspaces, ks).raised = "KeyError"
           /\ ks \in DOMAIN _keyspaces =>
                  \A model \in ModelNames :
                      ColumnFamilyName(model) \notin DOMAIN _keyspaces[ks] =>
                          get_table(get_keyspace(_keyspaces, ks).value,
                                    ColumnFamilyName(model)).raised = "KeyError"
    /\ \A model \in ExecModels :
           /\ \A statement \in SelectStatements(model) \cup UpdateStatements(model)
                               \cup DeleteStatements(model) :
                  ~Registered(_keyspaces, _get_ks_table_name(model, statement)) =>
                      ModelQuerySet_execute(_keyspaces, model, statement)
                      = [keyspaces |-> _keyspaces, raised |-> "KeyError"]
           /\ \A statement \in InsertStatements(model) \cup InstanceUpdateStatements(model)
                               \cup DeleteStatements(model) :
                  ~Registered(_keyspaces, _get_ks_table_name(model, statement)) =>
                      DMLQuery_execute(_keyspaces, _entries, model, statement)
                      = [keyspaces |-> _keyspaces, entries |-> _entries, raised |-> "KeyError"]

\* an insert statement was executed for a table never added to its keyspace,
\* which was created, and the keyspace holds no table
C17_Witness ==
    /\ last.op = "DMLQuery._execute" /\ last.stmt = "InsertStatement"
    /\ last.raised = "KeyError"
    /\ last.ks \in DOMAIN _keyspaces /\ DOMAIN _keyspaces[last.ks] = {}

(***************************************************************************)
(* Properties of concurrent calls.                                         *)
(***************************************************************************)
\* the pc values of a thread that holds the lock of its table
InLock == {"locked", "write", "loop", "release"}

\* C18: with threads inserting concurrently, no two rows of a table ever hold
\* the same primary key; when all threads have inserted the same key, the
\* table holds exactly one row of that key, and if all of them set
\* if_not_exists and the key was absent before, exactly one insert succeeded
\* and every other one raised the conflict.
C18_AtomicInsert ==
    \A n \in DOMAIN serial :
        LET t == TableAt(n[1], n[2])
            key == threads[CHOOSE th \in Threads : TRUE].values
            same == \A th \in Threads :
                        /\ threads[th].pc = "done" /\ threads[th].op = "insert"
                        /\ threads[th].n = n /\ threads[th].values = key
                        /\ HasFullKey(t, key)
            held == {i \in DOMAIN t._entries : KeyOf(t, Rows(t)[i]) = key}
            absent == \A i \in DOMAIN latest[n].rows : KeyOf(t, latest[n].rows[i]) # key
            won == {th \in Threads : threads[th].raised = ""}
        IN  /\ \A i, j \in DOMAIN t._entries :
                   KeyOf(t, Rows(t)[i]) = KeyOf(t, Rows(t)[j]) => i = j
            /\ same => /\ Cardinality(held) = 1
                       /\ (absent /\ \A th \in Threads : threads[th].flag) =>
                              /\ Cardinality(won) = 1
                              /\ \A th \in Threads \ won :
                                     threads[th].raised = "LWTException"

\* every thread has inserted the key 1 with if_not_exists into a table that
\* did not hold it, and one of them raised the conflict
C18_Witness ==
    /\ \A th \in Threads :
           /\ threads[th].pc = "done" /\ threads[th].op = "insert" /\ threads[th].flag
           /\ threads[th].values = [pk \in {"username"} |-> PyInt(1)]
    /\ \E th \in Threads : threads[th].raised = "LWTException"
    /\ \A n \in DOMAIN latest : latest[n].rows = <<>>

\* C19: every call of find, insert, update or delete that ran concurrently
\* with others returned the rows, or raised the exception, of the same call run
\* alone in the order the calls acquired the lock of the table, and whenever
\* the lock of a table is free its rows are the rows those runs leave; so no
\* find sees an update or delete of several rows applied in part.
C19_Serialisable ==
    /\ \A th \in Threads :
           (threads[th].pc = "done" /\ threads[th].raised # "CQLEngineException") =>
               /\ threads[th].raised = threads[th].expected.raised
               /\ threads[th].rows = threads[th].expected.rows
    /\ \A n \in DOMAIN serial :
           TableAt(n[1], n[2])._lock = "" => Rows(TableAt(n[1], n[2])) = Rows(serial[n])

\* a find waits for the lock while an update of two rows or more has assigned
\* to its first row and not yet to its last
C19_Witness ==
    \E a, b \in Threads :
        /\ threads[a].op = "find" /\ threads[a].pc = "acquire"
        /\ threads[b].op = "update" /\ threads[b].pc = "loop"
        /\ threads[b].k >= 2 /\ Len(threads[b].indices) >= 2
        /\ threads[a].n = threads[b].n

\* C20: every table has its own lock, and a call takes the lock of its table
\* alone: a thread waiting to enter a call on a table can enter it whenever
\* the lock of that table is free, whatever locks of other tables are held;
\* the holder of a table's lock is a thread inside a call on that table.
C20_LockPerTable ==
    /\ \A th \in Threads :
           (/\ threads[th].pc = "acquire"
            /\ TableAt(threads[th].n[1], threads[th].n[2])._lock = "")
           => ENABLED ThreadAcquire(th)
    /\ \A n \in DOMAIN serial :
           TableAt(n[1], n[2])._lock # "" =>
               /\ threads[TableAt(n[1], n[2])._lock].n = n
               /\ threads[TableAt(n[1], n[2])._lock].pc \in InLock

\* two threads are inside calls on two different tables, each holding the lock
\* of its table
C20_Witness ==
    \E a, b \in Threads :
        /\ threads[a].n # threads[b].n
        /\ threads[a].pc \in InLock /\ threads[b].pc \in InLock
        /\ TableAt(threads[a].n[1], threads[a].n[2])._lock = a
        /\ TableAt(threads[b].n[1], threads[b].n[2])._lock = b

(***************************************************************************)
(* Properties of tables without a primary key.                             *)
(***************************************************************************)
\* C21: in a table that declares no primary-key column every Table.insert
\* appends a row and replaces none: it raises nothing, the table has one row
\* more than before, and the rows it had are in their places unchanged.
C21_NoKeyAccumulates ==
    \A t \in RegisteredTables \ KeyedTables :
        \A values \in InsertValues(t), if_not_exists \in BOOLEAN :
            \A r \in {insert(t, values, if_not_exists)} :
                /\ r.raised = ""
                /\ Len(r.t._entries) = Len(t._entries) + 1
                /\ \A i \in DOMAIN t._entries : Rows(r.t)[i] = Rows(t)[i]

(***************************************************************************)
(* Properties of the value normalizer.                                     *)
(***************************************************************************)
\* the calendar datetime ms milliseconds after the epoch
PyDatetime(ms) == [kind |-> "datetime", i |-> ms, l |-> <<>>, s |-> {}, m |-> EmptyMap]

\* the rows a select of every row and field returns from a table
ReadBack(model, t) == Selected(model, find(t, EmptyMap, PyNone, AllFields(t)))

\* the tables in which every timestamp was written (none is None)
Stamped == {t \in RegisteredTables :
               \A i \in DOMAIN t._entries : Rows(t)[i]["created_at"] # PyNone}

KindOf(type) ==
    CASE type = "List" -> "list" [] type = "Set" -> "set" [] type = "Map" -> "dict"
      [] OTHER -> ""

\* C23: every stored row holds, in each list, set and map column, a container
\* of the declared kind, never None, after any sequence of inserts and
\* updates.
C23_ContainersNeverNull ==
    \A t \in RegisteredTables : \A i \in DOMAIN t._entries :
        \A c \in _column_names(t) \ ScalarColumnNames(t) :
            Rows(t)[i][c].kind = KindOf(DeclaredType(t, c))

(***************************************************************************)
(* Properties of the per-instance executor.                                *)
(***************************************************************************)
\* C24: a delete statement with field targets, executed through
\* DMLQuery._execute, leaves every row of the table in place and sets the
\* targeted fields to None in every row that matches its where-clause.
C24_DeleteFieldsNulls ==
    \A model \in ExecModels : \A statement \in FieldDeletes(model) :
    \A n \in {_get_ks_table_name(model, statement)} :
        Registered(_keyspaces, n) =>
            \A r \in {DMLQuery_execute(_keyspaces, _entries, model, statement)} :
            \A t \in {TableAt(n[1], n[2])}, after \in {r.keyspaces[n[1]][n[2]]} :
                /\ r.raised = ""
                /\ Len(after._entries) = Len(t._entries)
                /\ \A i \in DOMAIN t._entries :
                       RowMatches(Rows(t)[i], clauses_to_dict(statement.where_clauses)) =>
                           \A j \in DOMAIN statement.fields :
                               Rows(after)[i][statement.fields[j].field] = PyNone

(***************************************************************************)
(* Properties of the operators of an update.                               *)
(***************************************************************************)
\* the rows of a table after the column c of the rows matching filters was
\* replaced by the value v
Replaced(t, filters, c, v) ==
    [i \in DOMAIN t._entries |->
        IF RowMatches(Rows(t)[i], filters)
        THEN [k \in DOMAIN Rows(t)[i] |-> IF k = c THEN v ELSE Rows(t)[i][k]]
        ELSE Rows(t)[i]]

\* C25: an assignment clause whose operation is missing, empty or unknown
\* becomes a triple with the operator assign, and the update statement that
\* carries it raises nothing and replaces the stored value of the clause's
\* column by the clause's value in every matching row.
C25_UnknownOperationAssigns ==
    \A model \in {"user_skills"} :
    \A t \in {TableAt(ModelKeyspace(model), ColumnFamilyName(model))} :
    \A filters \in ColumnFilters(t), clause \in OperationClauses(t) :
    \A statement \in {Statement("UpdateStatement", TableOf(model), ClausesOf(t, filters),
                                 <<clause>>, <<>>, PyNone, FALSE, FALSE)} :
    \A r \in {ModelQuerySet_execute(_keyspaces, model, statement)} :
        /\ assignments_to_list(<<clause>>) = <<<<clause.field, "assign", clause.value>>>>
        /\ r.raised = ""
        /\ Rows(r.keyspaces[ModelKeyspace(model)][ColumnFamilyName(model)])
               = Replaced(t, filters, clause.field, clause.value)

\* an update statement whose clause carries the operation increment has
\* replaced the list of a row
C25_Witness ==
    /\ last.op = "execute_update" /\ last.operator = "increment"
    /\ last.hits = 1 /\ last.raised = ""
    /\ \E t \in RegisteredTables : \E i \in DOMAIN t._entries :
           Rows(t)[i]["skills"] = PyList(<<1>>)

\* the pairs of a column kind and an operator that Table._assign_value lists
ListedPairs ==
    {<<"List", "append">>, <<"List", "prepend">>, <<"Set", "add">>, <<"Set", "remove">>,
     <<"Map", "update">>, <<"Map", "remove">>}

\* the assignments to a column of the table whose operator is not assign and
\* is not listed for the kind of the column
UnlistedAssignments(t) ==
    {a \in (Assigned(t) \cap _column_names(t)) \X (SUPPORTED_OPERATIONS \ {DEFAULT_OPERATOR})
             \X {PyList(<<1>>), PySet({1})} :
        <<DbType(t, a[1]), a[2]>> \notin ListedPairs}

\* C26: Table.update applies an assignment whose column kind and operator are
\* not a listed pair as an assign: nothing is raised and every matching row
\* holds the assignment's value in the column.
C26_UnlistedPairAssigns ==
    \A t \in RegisteredTables :
    \A filters \in ColumnFilters(t), a \in UnlistedAssignments(t) :
    \A r \in {update(t, filters, <<a>>, FALSE)} :
        /\ r.raised = ""
        /\ Rows(r.t) = Replaced(t, filters, a[1], a[3])

\* the assignments of a list that name a column of the table, in their order
KnownOf(t, values) == SelectSeq(values, LAMBDA a : a[1] \in _column_names(t))

\* C27: Table.update skips an assignment to a name that is no column of the
\* table: it raises nothing and adds the name to no row, and every matching
\* row receives the other assignments of the list in list order, as an update
\* with those alone leaves it; the other rows stay as they were.
C27_UnknownColumnSkipped ==
    \A t \in RegisteredTables :
    \A filters \in Filters(t), values \in MixedLists(t) :
    \A r \in {update(t, filters, values, FALSE)} :
        /\ r.raised = ""
        /\ \A i \in DOMAIN r.t._entries : DOMAIN r.t._entries[i] = _column_names(t)
        /\ Rows(r.t) = [i \in DOMAIN t._entries |->
                           IF RowMatches(Rows(t)[i], filters)
                           THEN AfterAssignments(Rows(t)[i], values, 1)
                           ELSE Rows(t)[i]]
        /\ r.t = update(t, filters, KnownOf(t, values), FALSE).t

\* an update whose list names a column the table does not have has matched
\* two rows
C27_Witness ==
    /\ last.op = "update" /\ last.operator = "mixed" /\ last.raised = ""
    /\ last.hits >= 2
    /\ \E t \in RegisteredTables : \E i \in DOMAIN t._entries :
           Rows(t)[i]["user_height"] # PyNone

(***************************************************************************)
(* Properties of Table.delete with filters.                                *)
(***************************************************************************)
\* C28: Table.delete with filters that are not empty removes exactly the rows
\* that satisfy them, however many and wherever they are: the rows left are
\* the rows that do not match, with their values, in their order, and nothing
\* is raised unless if_exists is set and no row matches.
C28_DeleteRemovesMatching ==
    \A t \in RegisteredTables :
    \A filters \in Filters(t) \ {EmptyMap}, if_exists \in BOOLEAN :
    \A r \in {delete(t, filters, if_exists)} :
    \A m \in {MatchingIndices(t, filters)} :
        /\ r.raised = IF if_exists /\ m = <<>> THEN "LWTException" ELSE ""
        /\ Len(r.t._entries) = Len(t._entries) - Len(m)
        /\ Rows(r.t) = SelectSeq(Rows(t), LAMBDA row : ~RowMatches(row, filters))
        /\ \A i \in DOMAIN r.t._entries : ~RowMatches(Rows(r.t)[i], filters)

\* a delete without if_exists, by a filter that is no primary key, has removed
\* two rows at once
C28_Witness ==
    /\ last.op = "delete" /\ ~last.flag /\ ~last.unfiltered
    /\ last.hits >= 2 /\ last.raised = ""
    /\ \E t \in RegisteredTables : Len(t._entries) = last.nrows - last.hits

\* the positions of a thread at which its next step reads or writes the rows
\* kept for its table: inside `with self._lock`, and in the loop over the rows
\* of a delete statement with field targets
RowSteps == {"locked", "write", "loop", "fields"}

\* C29: at most one thread is inside the lock of a table, and every thread
\* whose next step reads or writes the rows kept for a table, whichever path
\* of the executors it came by, is the holder of the lock of that table.
C29_RowStepsHoldLock ==
    \A n \in DOMAIN serial :
        /\ Cardinality({th \in Threads : threads[th].n = n /\ threads[th].pc \in InLock}) <= 1
        /\ \A th \in Threads :
               (threads[th].n = n /\ threads[th].pc \in RowSteps) =>
                   TableAt(n[1], n[2])._lock = th

\* C30: no lock is left held by a call that has returned: the holder of a
\* table's lock is a thread inside `with self._lock` of that table, also after
\* calls that ended in a conflict raised under the lock; and with a fair lock
\* every call a thread has made (find, insert, update or delete) eventually
\* returns, with a result, a conflict or an error.
C30_ReleasedAndReturns ==
    /\ [](\A n \in DOMAIN serial : \A th \in Threads :
              TableAt(n[1], n[2])._lock = th =>
                  (threads[th].n = n /\ threads[th].pc \in InLock))
    /\ [](\A n \in DOMAIN serial : TableAt(n[1], n[2])._lock \in Threads \cup {""})
    /\ \A th \in Threads :
           (threads[th].pc \notin {"idle", "done"}) ~> (threads[th].pc = "done")

\* a conditional update or delete of a thread ended in the conflict raised
\* under the lock, and the other thread is now inside the lock of the same table
C30_Witness ==
    \E th \in Threads : \E other \in Threads \ {th} :
        /\ threads[th].pc = "done"
        /\ threads[th].op \in {"update", "delete"}
        /\ threads[th].raised = "LWTException"
        /\ threads[other].n = threads[th].n
        /\ threads[other].pc \in InLock
        /\ TableAt(threads[th].n[1], threads[th].n[2])._lock = other

\* C31: Table.update changes only the rows that match its filters: the table
\* keeps its number of rows, and every row that does not match keeps all its
\* column values, whatever the assignment and whatever earlier updates stored
\* in the rows.
C31_UpdateFrame ==
    \A t \in RegisteredTables : \A filters \in ColumnFilters(t) : \A a \in Assignments(t) :
        LET m == MatchingIndices(t, filters)
            after == Rows(update(t, filters, <<a>>, FALSE).t)
        IN  /\ DOMAIN after = DOMAIN Rows(t)
            /\ \A i \in DOMAIN Rows(t) :
                   (\A n \in DOMAIN m : m[n] # i) => after[i] = Rows(t)[i]

\* C32: in a table that declares a primary key, after any sequence of insert,
\* update and delete calls, updates that assign to primary-key columns
\* included, no two rows hold the same primary-key tuple and no row holds None
\* in a primary-key column.
C32_KeyIntegrity ==
    \A t \in KeyedTables :
        /\ \A i, j \in DOMAIN t._entries :
               KeyOf(t, Rows(t)[i]) = KeyOf(t, Rows(t)[j]) => i = j
        /\ \A i \in DOMAIN t._entries : \A pk \in _primary_key_names(t) :
               Rows(t)[i][pk] # PyNone

====
